---- MODULE Spec2Model ----
(***************************************************************************)
(* Gesture interpretation, exclusive drag state and boundary enforcement   *)
(* of BumpTop WebXR.                                                        *)
(*                                                                          *)
(*   SpecGI        one GestureInterpreter driven by arbitrary pointer       *)
(*                 events and a millisecond clock (performance.now()).      *)
(*   Spec          two objects driven by useDraggableObject, sharing the    *)
(*                 draggable store (the manipulation lock).                 *)
(*   SpecBoundary  the BoundaryEnforcer pass over tracked rigid bodies.     *)
(*                                                                          *)
(* Lengths are in millimetres, velocities in mm/s, times in ms, screen      *)
(* coordinates in px.                                                       *)
(***************************************************************************)
EXTENDS Integers, Sequences, FiniteSets, TLC

\* ------------------------------------------------------------------ bounds
MaxPointerId == 2
\* samples a velocity tracker holds at most in SpecTracker and SpecThrow
MaxTracked == 3
MaxTime == 750

PointerIds == 1..MaxPointerId
\* the clock advances between events: one step is a press shorter than
\* tapMaxMs, two steps are exactly doubleTapMaxMs
Deltas == {150}
\* performance.now() when the interpreter is constructed
InitNows == {0, 300}
\* screen positions: a press start, a point exactly dragStartPx away from it
\* and a diagonal point just beyond dragStartPx (6,6 -> sqrt(72) > 8)
Points == { [x |-> 100, y |-> 100], [x |-> 100, y |-> 108],
            [x |-> 106, y |-> 106] }
\* Spec: the instants at which handlers run (a press lasting from the first
\* to the second is longer than tapMaxMs) and the positions they report
\* (the second is beyond dragStartPx from the first)
HookNows == <<300, 600>>
\* Spec: the pointers of one hand on the screen; two reach every branch of
\* the handlers (press, drag, pinch, untracked pointer)
HookPointerIds == {1, 2}
HookPoints == { [x |-> 100, y |-> 100], [x |-> 106, y |-> 106] }

\* ------------------------------------------------- GestureInterpreter config
tapMaxMs == 220
doubleTapMaxMs == 300
dragStartPx == 8

VARIABLES
  now,        \* performance.now(), ms
  gi,         \* SpecGI: the GestureInterpreter instance
  logged,     \* SpecGI: console.log lines of the last interpreter call
  tapLog,     \* SpecGI: the last two tap classifications, with times
  press,      \* SpecGI: observer of the current press (for tap/drag claims)
  interp,     \* Spec: gestureInterpreter.current of each draggable object
  store,      \* Spec: useDraggableStore state (the manipulation lock)
  bodyType,   \* Spec: body type of each object's rigid body
  ignored,    \* Spec: the object whose pointer-down was swallowed by the last handler call
  leftDrag,   \* Spec: observer, objects whose drag was ended by an event
  bodyPos,    \* Spec: translation of each object's rigid body (mm)
  tracker,    \* Spec: velocityTracker.current of each draggable object
  impulse,    \* Spec: the applyImpulse call of the last handler call, if any
  lastTapTarget, \* SpecTaps: observer, the object of the latest classified tap
  settings,   \* SpecBoundary: useAppStore settings (desk size, mm)
  fileRefs,   \* SpecBoundary: fileRefs.current, id -> rigid body
  contentRefs,\* SpecBoundary: contentRefs.current, id -> rigid body
  before,     \* SpecBoundary: observer, the refs before the latest pass
  streak,     \* SpecBoundary: observer, passes since a body last moved (0..2)
  samples,    \* SpecTracker: PointerVelocityTracker.samples
  velocity,   \* SpecTracker: what the latest call was, and getVelocity's result
  calls,      \* SpecRelease: the store and body calls of the latest handler, in order
  rendered,   \* SpecFrames: what the latest rendered frame showed
  contentObjects, \* SpecStores: useContentStore contentObjects, file id -> content object
  fetches,    \* SpecStores: the provider.getFileContent calls still pending
  opens,      \* SpecStores: observer, number of fetches started so far
  openedBy,   \* SpecStores: observer, the fetch started by the latest open of each file
  lastDone,   \* SpecStores: observer, the fetch that completed in the latest step
  mode,       \* SpecStores: useAppStore mode
  isARSessionActive, \* SpecStores: useAppStore isARSessionActive
  session,    \* SpecStores: session of the XR store
  entering    \* SpecStores: a store.enterAR() call of handleStart is pending

giVars == <<gi, logged, tapLog, press>>
hookVars == <<interp, store, bodyType, ignored, leftDrag, bodyPos, tracker, impulse>>
tapVars == <<lastTapTarget>>
orderVars == <<calls, rendered>>
storesVars == <<contentObjects, fetches, opens, openedBy, lastDone,
               mode, isARSessionActive, session, entering>>
boundaryVars == <<settings, fileRefs, contentRefs, before, streak>>
trackerVars == <<samples, velocity>>
vars == <<now, giVars, hookVars, boundaryVars, trackerVars, tapVars, orderVars, storesVars>>

\* ------------------------------------------------------------ Map helpers
\* The pointers Map is modelled by its key set: the PointerInfo values
\* (x, y, timestamp) are read only by getPinchDistance and getCenterPoint,
\* which no transition uses.
EmptyMap == {}
MapSet(m, k) == m \cup {k}
MapDelete(m, k) == m \ {k}
MapSize(m) == Cardinality(m)
MapHas(m, k) == k \in m

\* --------------------------------------------------- GestureInterpreter
\* field initialisers of the class
NewGestureInterpreter ==
  [ state |-> "idle",
    pointers |-> EmptyMap,
    pressStartTime |-> 0,
    pressStartPosition |-> [x |-> 0, y |-> 0],
    lastTapTime |-> 0,
    isDragging |-> FALSE ]

\* mutant: the pinch branch forgets to clear the dragging flag
onPointerDown_KeepsDragFlag(g, pointerId, x, y, t) ==
  LET ps == MapSet(g.pointers, pointerId)
  IN  IF MapSize(ps) = 1
      THEN [g EXCEPT !.pointers = ps,
                     !.state = "pressing",
                     !.pressStartTime = t,
                     !.pressStartPosition = [x |-> x, y |-> y],
                     !.isDragging = FALSE]
      ELSE IF MapSize(ps) = 2
      THEN [g EXCEPT !.pointers = ps, !.state = "pinching"]
      ELSE [g EXCEPT !.pointers = ps]

\* mutant: a second pointer does not turn the gesture into a pinch
onPointerDown_NoPinch(g, pointerId, x, y, t) ==
  LET ps == MapSet(g.pointers, pointerId)
  IN  IF MapSize(ps) = 1
      THEN [g EXCEPT !.pointers = ps,
                     !.state = "pressing",
                     !.pressStartTime = t,
                     !.pressStartPosition = [x |-> x, y |-> y],
                     !.isDragging = FALSE]
      ELSE [g EXCEPT !.pointers = ps]

onPointerDown(g, pointerId, x, y, t) ==
  LET ps == MapSet(g.pointers, pointerId)
  IN  IF MapSize(ps) = 1
      THEN [g EXCEPT !.pointers = ps,
                     !.state = "pressing",
                     !.pressStartTime = t,
                     !.pressStartPosition = [x |-> x, y |-> y],
                     !.isDragging = FALSE]
      ELSE IF MapSize(ps) = 2
      THEN [g EXCEPT !.pointers = ps,
                     !.state = "pinching",
                     !.isDragging = FALSE]
      ELSE [g EXCEPT !.pointers = ps]

onPointerDownLog(g, pointerId) ==
  LET n == MapSize(MapSet(g.pointers, pointerId))
  IN  IF n = 1 THEN <<"pressing">>
      ELSE IF n = 2 THEN <<"pinching">>
      ELSE << >>

\* mutant: the squared distance is compared with dragStartPx (no sqrt)
ExceedsDragStart_NoSqrt(g, x, y) ==
  LET dx == x - g.pressStartPosition.x
      dy == y - g.pressStartPosition.y
  IN  dx * dx + dy * dy > dragStartPx

\* mutant: a move of exactly dragStartPx starts the drag (>= for >)
ExceedsDragStart_Inclusive(g, x, y) ==
  LET dx == x - g.pressStartPosition.x
      dy == y - g.pressStartPosition.y
  IN  dx * dx + dy * dy >= dragStartPx * dragStartPx

\* Math.sqrt(dx*dx + dy*dy) > dragStartPx, on integer pixels
ExceedsDragStart(g, x, y) ==
  LET dx == x - g.pressStartPosition.x
      dy == y - g.pressStartPosition.y
  IN  dx * dx + dy * dy > dragStartPx * dragStartPx

onPointerMove(g, pointerId, x, y) ==
  IF ~MapHas(g.pointers, pointerId)
  THEN g
  ELSE IF g.state = "pressing" /\ ~g.isDragging /\ ExceedsDragStart(g, x, y)
       THEN [g EXCEPT !.state = "dragging", !.isDragging = TRUE]
       ELSE g

onPointerMoveLog(g, pointerId, x, y) ==
  IF /\ MapHas(g.pointers, pointerId)
     /\ g.state = "pressing" /\ ~g.isDragging /\ ExceedsDragStart(g, x, y)
  THEN <<"dragging started">>
  ELSE << >>

\* the branch of onPointerUp taken for a tracked pointer
IsShortPress(g, t) == g.state = "pressing" /\ t - g.pressStartTime < tapMaxMs
\* mutant: the double-tap window includes its end point
IsDoubleTap_Inclusive(g, t) == t - g.lastTapTime <= doubleTapMaxMs

IsDoubleTap(g, t) == t - g.lastTapTime < doubleTapMaxMs

\* mutant: the closing "no pointers left" block is missing
onPointerUp_NoFinalIdle(g, pointerId, t) ==
  IF ~MapHas(g.pointers, pointerId)
  THEN g
  ELSE LET g1 == IF g.state = "dragging"
                 THEN [g EXCEPT !.state = "released", !.isDragging = FALSE]
                 ELSE IF IsShortPress(g, t)
                 THEN [g EXCEPT !.lastTapTime = IF IsDoubleTap(g, t) THEN 0 ELSE t,
                                !.state = "idle",
                                !.isDragging = FALSE]
                 ELSE IF g.state = "pinching"
                 THEN (IF MapSize(g.pointers) = 1
                       THEN [g EXCEPT !.state = "idle"]
                       ELSE g)
                 ELSE [g EXCEPT !.state = "idle", !.isDragging = FALSE]
      IN  [g1 EXCEPT !.pointers = MapDelete(g.pointers, pointerId)]

onPointerUp(g, pointerId, t) ==
  IF ~MapHas(g.pointers, pointerId)
  THEN g
  ELSE LET g1 == IF g.state = "dragging"
                 THEN [g EXCEPT !.state = "released", !.isDragging = FALSE]
                 ELSE IF IsShortPress(g, t)
                 THEN [g EXCEPT !.lastTapTime = IF IsDoubleTap(g, t) THEN 0 ELSE t,
                                !.state = "idle",
                                !.isDragging = FALSE]
                 ELSE IF g.state = "pinching"
                 THEN (IF MapSize(g.pointers) = 1
                       THEN [g EXCEPT !.state = "idle"]
                       ELSE g)
                 ELSE [g EXCEPT !.state = "idle", !.isDragging = FALSE]
           g2 == [g1 EXCEPT !.pointers = MapDelete(g.pointers, pointerId)]
       IN  IF MapSize(g2.pointers) = 0
           THEN [g2 EXCEPT !.state = "idle", !.isDragging = FALSE]
           ELSE g2

onPointerUpLog(g, pointerId, t) ==
  IF ~MapHas(g.pointers, pointerId) THEN << >>
  ELSE IF g.state = "dragging" THEN <<"released (throw)">>
  ELSE IF IsShortPress(g, t)
  THEN (IF IsDoubleTap(g, t) THEN <<"double-tap detected">> ELSE <<"single tap">>)
  ELSE << >>

\* mutant: the last cancellation goes to idle but leaves the dragging flag
onPointerCancel_KeepsDragFlag(g, pointerId) ==
  LET g1 == [g EXCEPT !.pointers = MapDelete(g.pointers, pointerId)]
  IN  IF MapSize(g1.pointers) = 0
      THEN [g1 EXCEPT !.state = "idle"]
      ELSE g1

onPointerCancel(g, pointerId) ==
  LET g1 == [g EXCEPT !.pointers = MapDelete(g.pointers, pointerId)]
  IN  IF MapSize(g1.pointers) = 0
      THEN [g1 EXCEPT !.state = "idle", !.isDragging = FALSE]
      ELSE g1

reset(g) ==
  [g EXCEPT !.state = "idle",
            !.pointers = EmptyMap,
            !.isDragging = FALSE,
            !.pressStartTime = 0,
            !.lastTapTime = 0]

isDraggingGesture(g) == g.isDragging

\* ------------------------------------------------- PointerVelocityTracker
\* Positions in mm, timestamps in ms, velocities in mm/s.
maxSamples == 12
maxAge == 120

Vec(x0, y0, z0) == [x |-> x0, y |-> y0, z |-> z0]

\* a / b for b > 0, rounded toward zero
Quot(a, b) == IF a >= 0 THEN a \div b ELSE 0 - ((0 - a) \div b)

\* a JavaScript division: the quotient and whether it is a finite number
\* (x / 0 is Infinity or NaN)
Divide(a, b) == [q |-> IF b = 0 THEN 0 ELSE Quot(a, b), finite |-> b # 0]

\* Math.exp(-age / 30) in thousandths, on the ages 0, 50 and 100 ms
ExpWeight(age) == IF age < 25 THEN 1000 ELSE IF age < 75 THEN 189 ELSE 36

RECURSIVE SumOver(_, _)
SumOver(S, f) ==
  IF S = {} THEN 0
  ELSE LET i == CHOOSE j \in S : TRUE
       IN  f[i] + SumOver(S \ {i}, f)

NewPointerVelocityTracker == << >>

addSample(tr, position, t) ==
  LET pushed == Append(tr, [position |-> position, timestamp |-> t])
  IN  IF Len(pushed) > maxSamples THEN Tail(pushed) ELSE pushed

\* mutant: every adjacent pair is used (no deltaTime > 0 test)
PairIsUsed_Always(prev, curr) == TRUE

\* if (deltaTime > 0)
PairIsUsed(prev, curr) == curr.timestamp - prev.timestamp > 0

ZeroVelocity == [x |-> 0, y |-> 0, z |-> 0, finite |-> TRUE]

\* mutant: the samples are not filtered by age
RecentSamples_NoAge(tr, t) == tr

RecentSamples(tr, t) ==
  SelectSeq(tr, LAMBDA smp : t - smp.timestamp < maxAge)

\* mutant: every pair has the same weight
getVelocity_Unweighted(tr, t) ==
  LET recentSamples == RecentSamples(tr, t)
      used == {i \in 2..Len(recentSamples) :
                 PairIsUsed(recentSamples[i - 1], recentSamples[i])}
      dt(i) == recentSamples[i].timestamp - recentSamples[i - 1].timestamp
      \* deltaPosition / (deltaTime / 1000)
      vx(i) == Divide((recentSamples[i].position.x - recentSamples[i - 1].position.x) * 1000, dt(i))
      vy(i) == Divide((recentSamples[i].position.y - recentSamples[i - 1].position.y) * 1000, dt(i))
      vz(i) == Divide((recentSamples[i].position.z - recentSamples[i - 1].position.z) * 1000, dt(i))
      weight(i) == 1000
      totalWeight == SumOver(used, [i \in used |-> weight(i)])
      ax == Divide(SumOver(used, [i \in used |-> vx(i).q * weight(i)]), totalWeight)
      ay == Divide(SumOver(used, [i \in used |-> vy(i).q * weight(i)]), totalWeight)
      az == Divide(SumOver(used, [i \in used |-> vz(i).q * weight(i)]), totalWeight)
  IN  IF Len(recentSamples) < 2 THEN ZeroVelocity
      ELSE IF used = {} THEN ZeroVelocity
      ELSE [x |-> ax.q, y |-> ay.q, z |-> az.q,
            finite |-> /\ \A i \in used : vx(i).finite
                       /\ ax.finite]

getVelocity(tr, t) ==
  LET recentSamples == RecentSamples(tr, t)
      used == {i \in 2..Len(recentSamples) :
                 PairIsUsed(recentSamples[i - 1], recentSamples[i])}
      dt(i) == recentSamples[i].timestamp - recentSamples[i - 1].timestamp
      \* deltaPosition / (deltaTime / 1000)
      vx(i) == Divide((recentSamples[i].position.x - recentSamples[i - 1].position.x) * 1000, dt(i))
      vy(i) == Divide((recentSamples[i].position.y - recentSamples[i - 1].position.y) * 1000, dt(i))
      vz(i) == Divide((recentSamples[i].position.z - recentSamples[i - 1].position.z) * 1000, dt(i))
      weight(i) == ExpWeight(t - recentSamples[i].timestamp)
      totalWeight == SumOver(used, [i \in used |-> weight(i)])
      ax == Divide(SumOver(used, [i \in used |-> vx(i).q * weight(i)]), totalWeight)
      ay == Divide(SumOver(used, [i \in used |-> vy(i).q * weight(i)]), totalWeight)
      az == Divide(SumOver(used, [i \in used |-> vz(i).q * weight(i)]), totalWeight)
  IN  IF Len(recentSamples) < 2 THEN ZeroVelocity
      ELSE IF used = {} THEN ZeroVelocity
      ELSE [x |-> ax.q, y |-> ay.q, z |-> az.q,
            finite |-> /\ \A i \in used : vx(i).finite
                       /\ ax.finite]

clear(tr) == << >>
hasEnoughSamples(tr) == Len(tr) >= 2
getSampleCount(tr) == Len(tr)

\* SpecTracker: no call of getVelocity since the tracker or the clock changed
NotAsked == [asked |-> FALSE, result |-> ZeroVelocity]

TrackerStart ==
  /\ samples = NewPointerVelocityTracker
  /\ velocity = NotAsked

\* SpecRelease, SpecFrames: no handler has run and no frame was rendered
NoFrame == [shown |-> FALSE, enforced |-> TRUE, inside |-> TRUE]

OrderStart ==
  /\ calls = << >>
  /\ rendered = NoFrame

\* ------------------------------------------------------ useDraggableStore
Null == "null"
Objects == {"A", "B"}
objectType(o) == IF o = "A" THEN "file" ELSE "content"

NewDraggableStore ==
  [isDragging |-> FALSE, draggingObjectId |-> Null, draggingObjectType |-> Null]

setDragging(isDragging, objectId, objType) ==
  [ isDragging |-> isDragging,
    draggingObjectId |-> IF isDragging THEN objectId ELSE Null,
    draggingObjectType |-> IF isDragging THEN objType ELSE Null ]

\* ------------------------------------------------------ useDraggableObject
\* Handlers read draggingObjectId through the store subscription; the
\* component re-renders between two pointer events, so a handler sees the
\* store as the previous handler left it.  The body's position, the
\* velocity tracker and the throw impulse influence neither the interpreter
\* nor the store and are left out of this specification.

\* mutant: the guard compares with the wrong sense (=== for !==)
OtherIsDragged_WrongSense(o) ==
  store.draggingObjectId # Null /\ store.draggingObjectId = o

\* the guard opening every handler: another object holds the drag state
OtherIsDragged(o) ==
  store.draggingObjectId # Null /\ store.draggingObjectId # o

\* DEFAULT_CONFIG of useDraggableObject (mm/s, percent, mm)
minThrowSpeed == 100
maxThrowSpeed == 5000
dragSmoothingPct == 20
boundaryMargin == 50
\* TextPreview passes boundaryMargin: 0.1 for content panels
contentBoundaryMargin == 100
\* const mass = 0.8, in percent
massPct == 80
\* getFilePositions: const y = 0.2
BodyHeight == 200

boundaryMarginOf(o) ==
  IF objectType(o) = "content" THEN contentBoundaryMargin ELSE boundaryMargin

Min(a, b) == IF a < b THEN a ELSE b
Max(a, b) == IF a > b THEN a ELSE b

\* mutant: only x is clamped
clampToBoundary_XOnly(o, x, z) ==
  LET halfWidth == (settings.deskWidth \div 2) - boundaryMarginOf(o)
  IN  [x |-> Max(0 - halfWidth, Min(halfWidth, x)),
       z |-> z]

clampToBoundary(o, x, z) ==
  LET halfWidth == (settings.deskWidth \div 2) - boundaryMarginOf(o)
      halfHeight == (settings.deskHeight \div 2) - boundaryMarginOf(o)
  IN  [x |-> Max(0 - halfWidth, Min(halfWidth, x)),
       z |-> Max(0 - halfHeight, Min(halfHeight, z))]

\* raycaster.ray.intersectPlane: the point of the drag plane under the
\* pointer, or no intersection
NoHit == [hit |-> FALSE, x |-> 0, z |-> 0]
Hit(x0, z0) == [hit |-> TRUE, x |-> x0, z |-> z0]

\* Math.sqrt on integers, rounded down (bisection between lo and hi)
RECURSIVE SqrtBetween(_, _, _)
SqrtBetween(n, lo, hi) ==
  IF hi - lo <= 1 THEN lo
  ELSE LET mid == (lo + hi) \div 2
       IN  IF mid * mid <= n THEN SqrtBetween(n, mid, hi) ELSE SqrtBetween(n, lo, mid)

\* (46340 is the largest root whose square fits the 32-bit integers)
ISqrt(n) == SqrtBetween(n, 0, IF n < 46340 THEN n + 1 ELSE 46340)

NoImpulse == [applied |-> FALSE, x |-> 0, y |-> 0, z |-> 0]

\* mutant: the speed is not clamped to maxThrowSpeed
ThrowImpulse_Unclamped(tr, t) ==
  IF hasEnoughSamples(tr)
  THEN LET velocity0 == getVelocity(tr, t)
           speed2 == velocity0.x * velocity0.x + velocity0.z * velocity0.z
       IN  IF speed2 > minThrowSpeed * minThrowSpeed
           THEN [applied |-> TRUE,
                 x |-> Quot(velocity0.x * massPct, 100),
                 y |-> 0,
                 z |-> Quot(velocity0.z * massPct, 100)]
           ELSE NoImpulse
  ELSE NoImpulse

\* mutant: a throw needs only enough samples, however slow
ThrowImpulse_NoMinimum(tr, t) ==
  IF hasEnoughSamples(tr)
  THEN LET velocity0 == getVelocity(tr, t)
           speed2 == velocity0.x * velocity0.x + velocity0.z * velocity0.z
           speed == ISqrt(speed2)
           vx == IF speed2 > maxThrowSpeed * maxThrowSpeed
                 THEN Quot(velocity0.x * maxThrowSpeed, speed) ELSE velocity0.x
           vz == IF speed2 > maxThrowSpeed * maxThrowSpeed
                 THEN Quot(velocity0.z * maxThrowSpeed, speed) ELSE velocity0.z
       IN  [applied |-> TRUE,
            x |-> Quot(vx * massPct, 100),
            y |-> 0,
            z |-> Quot(vz * massPct, 100)]
  ELSE NoImpulse

\* the throw analysis of handlePointerUp after a drag: the applyImpulse call
\* it makes, if any
ThrowImpulse(tr, t) ==
  IF hasEnoughSamples(tr)
  THEN LET velocity0 == getVelocity(tr, t)
           \* velocity.y = 0; speed = velocity.length()
           speed2 == velocity0.x * velocity0.x + velocity0.z * velocity0.z
           speed == ISqrt(speed2)
           \* velocity.normalize().multiplyScalar(maxThrowSpeed)
           vx == IF speed2 > maxThrowSpeed * maxThrowSpeed
                 THEN Quot(velocity0.x * maxThrowSpeed, speed) ELSE velocity0.x
           vz == IF speed2 > maxThrowSpeed * maxThrowSpeed
                 THEN Quot(velocity0.z * maxThrowSpeed, speed) ELSE velocity0.z
       IN  IF speed2 > minThrowSpeed * minThrowSpeed
           THEN [applied |-> TRUE,
                 x |-> Quot(vx * massPct, 100),
                 y |-> 0,
                 z |-> Quot(vz * massPct, 100)]
           ELSE NoImpulse
  ELSE NoImpulse

HookStart ==
  /\ interp = [o \in Objects |-> NewGestureInterpreter]
  /\ store = NewDraggableStore
  /\ bodyType = [o \in Objects |-> "dynamic"]
  /\ ignored = Null
  /\ leftDrag = {}
  /\ bodyPos = [o \in Objects |-> Vec(0, BodyHeight, 0)]
  /\ tracker = [o \in Objects |-> NewPointerVelocityTracker]
  /\ impulse = NoImpulse
  /\ lastTapTarget = Null

\* the handler on o took the owner o out of dragging (pointer-down counts
\* when the second pointer turned the gesture into pinching); forgotten when
\* a new gesture starts on o
LeftDragAfter(o, byDown) ==
  LET was == store.draggingObjectId = o /\ interp[o].state = "dragging"
      out == interp'[o].state # "dragging"
      fresh == byDown /\ MapSize(interp[o].pointers) = 0
  IN  IF was /\ out /\ (~byDown \/ interp'[o].state = "pinching")
      THEN leftDrag \cup {o}
      ELSE IF fresh THEN leftDrag \ {o}
      ELSE leftDrag

\* the object of the latest tap that an interpreter classified
LastTapAfterUp(o, p) ==
  IF ~OtherIsDragged(o)
     /\ onPointerUpLog(interp[o], p, now) # << >>
     /\ onPointerUpLog(interp[o], p, now)[1] \in {"single tap", "double-tap detected"}
  THEN o
  ELSE lastTapTarget

\* The refs dragStartPosition, targetPosition and isDraggingStartedRef are
\* written and never read back (but for a log line) and are left out.
handlePointerDown(o, p, pt) ==
  IF OtherIsDragged(o)
  THEN /\ ignored' = o
       /\ impulse' = NoImpulse
       /\ UNCHANGED <<interp, store, bodyType, leftDrag, bodyPos, tracker>>
  ELSE /\ interp' = [interp EXCEPT ![o] = onPointerDown(@, p, pt.x, pt.y, now)]
       /\ store' = setDragging(TRUE, o, objectType(o))
       /\ bodyType' = [bodyType EXCEPT ![o] = "kinematic"]
       /\ tracker' = [tracker EXCEPT ![o] = clear(@)]
       /\ ignored' = Null
       /\ impulse' = NoImpulse
       /\ leftDrag' = LeftDragAfter(o, TRUE)
       /\ UNCHANGED bodyPos

\* mutant: the tracker is fed the raw pointer target
handlePointerMove_RawSample(o, p, pt, hit) ==
  IF OtherIsDragged(o)
  THEN /\ ignored' = Null
       /\ impulse' = NoImpulse
       /\ UNCHANGED <<interp, store, bodyType, leftDrag, bodyPos, tracker>>
  ELSE /\ interp' = [interp EXCEPT ![o] = onPointerMove(@, p, pt.x, pt.y)]
       /\ ignored' = Null
       /\ impulse' = NoImpulse
       /\ IF hit.hit /\ isDraggingGesture(interp'[o])
          THEN LET currentPos == bodyPos[o]
                   lerpPct == 100 - dragSmoothingPct
                   newX == currentPos.x + Quot((hit.x - currentPos.x) * lerpPct, 100)
                   newZ == currentPos.z + Quot((hit.z - currentPos.z) * lerpPct, 100)
                   clamped == clampToBoundary(o, newX, newZ)
               IN  /\ bodyPos' = [bodyPos EXCEPT ![o] = Vec(clamped.x, currentPos.y, clamped.z)]
                   /\ tracker' = [tracker EXCEPT ![o] =
                                    addSample(@, Vec(hit.x, 0, hit.z), now)]
          ELSE UNCHANGED <<bodyPos, tracker>>
       /\ UNCHANGED <<store, bodyType, leftDrag>>

handlePointerMove(o, p, pt, hit) ==
  IF OtherIsDragged(o)
  THEN /\ ignored' = Null
       /\ impulse' = NoImpulse
       /\ UNCHANGED <<interp, store, bodyType, leftDrag, bodyPos, tracker>>
  ELSE /\ interp' = [interp EXCEPT ![o] = onPointerMove(@, p, pt.x, pt.y)]
       /\ ignored' = Null
       /\ impulse' = NoImpulse
       /\ IF hit.hit /\ isDraggingGesture(interp'[o])
          THEN LET currentPos == bodyPos[o]
                   lerpPct == 100 - dragSmoothingPct
                   newX == currentPos.x + Quot((hit.x - currentPos.x) * lerpPct, 100)
                   newZ == currentPos.z + Quot((hit.z - currentPos.z) * lerpPct, 100)
                   clamped == clampToBoundary(o, newX, newZ)
               IN  /\ bodyPos' = [bodyPos EXCEPT ![o] = Vec(clamped.x, currentPos.y, clamped.z)]
                   /\ tracker' = [tracker EXCEPT ![o] =
                                    addSample(@, Vec(clamped.x, 0, clamped.z), now)]
          ELSE UNCHANGED <<bodyPos, tracker>>
       /\ UNCHANGED <<store, bodyType, leftDrag>>

handlePointerUp(o, p) ==
  IF OtherIsDragged(o)
  THEN /\ ignored' = Null
       /\ impulse' = NoImpulse
       /\ UNCHANGED <<interp, store, bodyType, leftDrag, bodyPos, tracker>>
  ELSE LET wasDragging == isDraggingGesture(interp[o])
       IN  /\ interp' = [interp EXCEPT ![o] = onPointerUp(@, p, now)]
           /\ store' = IF wasDragging THEN setDragging(FALSE, Null, Null) ELSE store
           /\ bodyType' = [bodyType EXCEPT ![o] = "dynamic"]
           /\ impulse' = IF wasDragging THEN ThrowImpulse(tracker[o], now) ELSE NoImpulse
           /\ tracker' = [tracker EXCEPT ![o] = clear(@)]
           /\ ignored' = Null
           /\ leftDrag' = LeftDragAfter(o, FALSE)
           /\ UNCHANGED bodyPos

\* the calls handlePointerUp makes on the store and on the rigid body, in the
\* order of the code
handlePointerUpCalls(o, p) ==
  IF OtherIsDragged(o)
  THEN << >>
  ELSE LET wasDragging == isDraggingGesture(interp[o])
       IN  (IF wasDragging THEN <<"setDragging">> ELSE << >>)
           \o <<"setBodyType">>
           \o (IF wasDragging /\ ThrowImpulse(tracker[o], now).applied
               THEN <<"applyImpulse">> ELSE << >>)

\* mutant: the body is not switched back to dynamic
handlePointerCancel_StaysKinematic(o, p) ==
  IF OtherIsDragged(o)
  THEN /\ ignored' = Null
       /\ impulse' = NoImpulse
       /\ UNCHANGED <<interp, store, bodyType, leftDrag, bodyPos, tracker>>
  ELSE /\ interp' = [interp EXCEPT ![o] = onPointerCancel(@, p)]
       /\ store' = setDragging(FALSE, Null, Null)
       /\ impulse' = NoImpulse
       /\ tracker' = [tracker EXCEPT ![o] = clear(@)]
       /\ ignored' = Null
       /\ leftDrag' = LeftDragAfter(o, FALSE)
       /\ UNCHANGED <<bodyType, bodyPos>>

handlePointerCancel(o, p) ==
  IF OtherIsDragged(o)
  THEN /\ ignored' = Null
       /\ impulse' = NoImpulse
       /\ UNCHANGED <<interp, store, bodyType, leftDrag, bodyPos, tracker>>
  ELSE /\ interp' = [interp EXCEPT ![o] = onPointerCancel(@, p)]
       /\ store' = setDragging(FALSE, Null, Null)
       /\ bodyType' = [bodyType EXCEPT ![o] = "dynamic"]
       /\ impulse' = NoImpulse
       /\ tracker' = [tracker EXCEPT ![o] = clear(@)]
       /\ ignored' = Null
       /\ leftDrag' = LeftDragAfter(o, FALSE)
       /\ UNCHANGED bodyPos

\* "Treat pointer leaving as a cancel event": the same body as
\* handlePointerCancel
handlePointerLeave(o, p) == handlePointerCancel(o, p)

\* ------------------------------------------------------ BoundaryEnforcer
\* SimulatedMode runs the pass in useFrame, ARMode runs the same statements
\* every 16 ms; positions in mm, velocities in mm/s.
fileMargin == 40
contentMargin == 100
\* bounceRestitution = 0.5, as a percentage
bounceRestitutionPct == 50

DEFAULT_SETTINGS == [deskWidth |-> 1200, deskHeight |-> 700]
\* the smallest desk the settings panel offers
MinDeskSettings == [deskWidth |-> 500, deskHeight |-> 500]

FileIds == {"file1"}
ContentIds == {"content1"}

RigidBody(pos, vel) == [pos |-> pos, vel |-> vel]

\* -vel * bounceRestitution
Bounce(v) == ((0 - v) * bounceRestitutionPct) \div 100

\* mutant: a correction also stops the vertical motion of the body
EnforceBody_DropsVertical(rigidBody, halfWidth, halfHeight, margin) ==
  LET pos == rigidBody.pos
      vel == rigidBody.vel
      newX == IF pos.x < (0 - halfWidth) + margin THEN (0 - halfWidth) + margin
              ELSE IF pos.x > halfWidth - margin THEN halfWidth - margin
              ELSE pos.x
      newZ == IF pos.z < (0 - halfHeight) + margin THEN (0 - halfHeight) + margin
              ELSE IF pos.z > halfHeight - margin THEN halfHeight - margin
              ELSE pos.z
  IN  IF newX # pos.x \/ newZ # pos.z
      THEN RigidBody(Vec(newX, pos.y, newZ),
                     Vec(IF pos.x # newX THEN Bounce(vel.x) ELSE vel.x, 0,
                         IF pos.z # newZ THEN Bounce(vel.z) ELSE vel.z))
      ELSE rigidBody

\* mutant: once a correction is needed the velocity of both horizontal axes
\* is bounced, also of the axis that was in bounds
EnforceBody_BouncesBothAxes(rigidBody, halfWidth, halfHeight, margin) ==
  LET pos == rigidBody.pos
      vel == rigidBody.vel
      newX == IF pos.x < (0 - halfWidth) + margin THEN (0 - halfWidth) + margin
              ELSE IF pos.x > halfWidth - margin THEN halfWidth - margin
              ELSE pos.x
      newZ == IF pos.z < (0 - halfHeight) + margin THEN (0 - halfHeight) + margin
              ELSE IF pos.z > halfHeight - margin THEN halfHeight - margin
              ELSE pos.z
  IN  IF newX # pos.x \/ newZ # pos.z
      THEN RigidBody(Vec(newX, pos.y, newZ), Vec(Bounce(vel.x), vel.y, Bounce(vel.z)))
      ELSE rigidBody

\* mutant: the z bounds are an else-branch of the x bounds, checked only
\* when x was in bounds
EnforceBody_OneAxis(rigidBody, halfWidth, halfHeight, margin) ==
  LET pos == rigidBody.pos
      vel == rigidBody.vel
      xLow == pos.x < (0 - halfWidth) + margin
      xHigh == ~xLow /\ pos.x > halfWidth - margin
      zLow == ~xLow /\ ~xHigh /\ pos.z < (0 - halfHeight) + margin
      zHigh == ~xLow /\ ~xHigh /\ ~zLow /\ pos.z > halfHeight - margin
      newX == IF xLow THEN (0 - halfWidth) + margin
              ELSE IF xHigh THEN halfWidth - margin
              ELSE pos.x
      newZ == IF zLow THEN (0 - halfHeight) + margin
              ELSE IF zHigh THEN halfHeight - margin
              ELSE pos.z
  IN  IF xLow \/ xHigh \/ zLow \/ zHigh
      THEN RigidBody(Vec(newX, pos.y, newZ),
                     Vec(IF pos.x # newX THEN Bounce(vel.x) ELSE vel.x, vel.y,
                         IF pos.z # newZ THEN Bounce(vel.z) ELSE vel.z))
      ELSE rigidBody

\* mutant: a body at or beyond the limit is corrected (>= for >)
EnforceBody_Inclusive(rigidBody, halfWidth, halfHeight, margin) ==
  LET pos == rigidBody.pos
      vel == rigidBody.vel
      xOut == pos.x <= (0 - halfWidth) + margin \/ pos.x >= halfWidth - margin
      zOut == pos.z <= (0 - halfHeight) + margin \/ pos.z >= halfHeight - margin
      newX == IF pos.x <= (0 - halfWidth) + margin THEN (0 - halfWidth) + margin
              ELSE IF pos.x >= halfWidth - margin THEN halfWidth - margin
              ELSE pos.x
      newZ == IF pos.z <= (0 - halfHeight) + margin THEN (0 - halfHeight) + margin
              ELSE IF pos.z >= halfHeight - margin THEN halfHeight - margin
              ELSE pos.z
  IN  IF xOut \/ zOut
      THEN RigidBody(Vec(newX, pos.y, newZ),
                     Vec(IF xOut THEN Bounce(vel.x) ELSE vel.x, vel.y,
                         IF zOut THEN Bounce(vel.z) ELSE vel.z))
      ELSE rigidBody

\* the body of one forEach callback
EnforceBody(rigidBody, halfWidth, halfHeight, margin) ==
  LET pos == rigidBody.pos
      xLow == pos.x < (0 - halfWidth) + margin
      xHigh == ~xLow /\ pos.x > halfWidth - margin
      zLow == pos.z < (0 - halfHeight) + margin
      zHigh == ~zLow /\ pos.z > halfHeight - margin
      newX == IF xLow THEN (0 - halfWidth) + margin
              ELSE IF xHigh THEN halfWidth - margin
              ELSE pos.x
      newZ == IF zLow THEN (0 - halfHeight) + margin
              ELSE IF zHigh THEN halfHeight - margin
              ELSE pos.z
      needsCorrection == xLow \/ xHigh \/ zLow \/ zHigh
      vel == rigidBody.vel
      newVelX == IF pos.x # newX THEN Bounce(vel.x) ELSE vel.x
      newVelZ == IF pos.z # newZ THEN Bounce(vel.z) ELSE vel.z
  IN  IF needsCorrection
      THEN RigidBody(Vec(newX, pos.y, newZ), Vec(newVelX, vel.y, newVelZ))
      ELSE rigidBody

halfWidthOf(st) == st.deskWidth \div 2
halfHeightOf(st) == st.deskHeight \div 2

EnforceFiles(refs, st) ==
  [id \in DOMAIN refs |->
     EnforceBody(refs[id], halfWidthOf(st), halfHeightOf(st), fileMargin)]

EnforceContents(refs, st) ==
  [id \in DOMAIN refs |->
     EnforceBody(refs[id], halfWidthOf(st), halfHeightOf(st), contentMargin)]

\* the tracked bodies, their limits and the inputs of SpecBoundary
marginOf(id) == IF id \in FileIds THEN fileMargin ELSE contentMargin
Refs == [id \in FileIds \cup ContentIds |->
           IF id \in FileIds THEN fileRefs[id] ELSE contentRefs[id]]
LimitX(id) == halfWidthOf(settings) - marginOf(id)
LimitZ(id) == halfHeightOf(settings) - marginOf(id)

\* where and how fast the physics engine (or a teleport) may leave a body:
\* per axis at the centre, on either limit, or beyond it
Overshoot == 50
\* a teleport arbitrarily far outside the region (on the z axis)
Teleport == 100000
Sides == {0 - 1, 0, 1}
Overs == {0, Overshoot}
OversZ == {0, Teleport}
AxisInput(limit, side, over) == side * (limit + over)
VelInputs == {Vec(0, 0, 0), Vec(1000, 0 - 200, 300), Vec(0 - 1000, 0, 0 - 300)}
BoundaryStart ==
  /\ settings = DEFAULT_SETTINGS
  /\ fileRefs = [id \in FileIds |-> RigidBody(Vec(0, BodyHeight, 0), Vec(0, 0, 0))]
  /\ contentRefs = [id \in ContentIds |-> RigidBody(Vec(0, BodyHeight, 0), Vec(0, 0, 0))]
  /\ before = [id \in FileIds \cup ContentIds |-> RigidBody(Vec(0, BodyHeight, 0), Vec(0, 0, 0))]
  /\ streak = 0

\* ------------------------------------------------------- useContentStore
\* contentObjects is a Map from the file id to the content object.  Of a
\* content object the two fields that the fetch writes are kept (isLoading,
\* contentUrl); a blob URL is named by the number of the fetch that made it,
\* and a pending fetch by the file id and that number.
MaxOpens == 3
Entries == {"doc1", "doc2"}

Put(m, k, v) == [x \in DOMAIN m \cup {k} |-> IF x = k THEN v ELSE m[x]]

NoFetch == [id |-> Null, n |-> 0, ok |-> FALSE]

\* openContent up to the await: the object is added with isLoading
openContentAdd(objs, id) == Put(objs, id, [isLoading |-> TRUE, contentUrl |-> Null])

\* mutant: the loaded content is stored whether or not the object is
\* still in the map
openContentLoaded_NoExistingTest(objs, id, url) ==
  Put(objs, id, [isLoading |-> FALSE, contentUrl |-> url])

\* openContent after the await returned a handle
openContentLoaded(objs, id, url) ==
  IF id \in DOMAIN objs
  THEN [objs EXCEPT ![id] = [@ EXCEPT !.contentUrl = url, !.isLoading = FALSE]]
  ELSE objs

\* the catch block of openContent
openContentFailed(objs, id) == [x \in DOMAIN objs \ {id} |-> objs[x]]

closeContent(objs, id) ==
  IF id \notin DOMAIN objs THEN objs ELSE [x \in DOMAIN objs \ {id} |-> objs[x]]

\* ------------------------------------------------------------ useAppStore
\* mode and isARSessionActive of the app store, the session of the XR store
\* ("undefined" until a first session exists, Null once a session ended) and
\* the pending enterAR() of StartARButton.  The device supports immersive
\* AR, so the Enter AR button is shown in simulated mode.

\* the subscriber of ARMode, called with the session of the XR store; it is
\* subscribed while ARMode is mounted, that is while mode is 'ar'.  The
\* result is <<isARSessionActive, mode>> after the call.
SessionSubscriber(sess) ==
  IF mode # "ar"
  THEN <<isARSessionActive, mode>>
  ELSE IF sess = "active"
  THEN <<TRUE, mode>>
  ELSE IF sess = Null
  THEN <<FALSE, "simulated">>
  ELSE <<isARSessionActive, mode>>

StoresStart ==
  /\ contentObjects = [x \in {} |-> Null]
  /\ fetches = {}
  /\ opens = 0
  /\ openedBy = [id \in Entries |-> 0]
  /\ lastDone = NoFetch
  /\ mode = "simulated"
  /\ isARSessionActive = FALSE
  /\ session = "undefined"
  /\ entering = FALSE

\* ------------------------------------------------ observers of SpecGI
\* tap classifications logged by onPointerUp, newest last
TapLines == {"single tap", "double-tap detected"}

LogTaps(log, lines, t) ==
  IF lines # << >> /\ lines[1] \in TapLines
  THEN LET l == Append(log, [kind |-> lines[1], t |-> t])
       IN  IF Len(l) > 2 THEN Tail(l) ELSE l
  ELSE log

Dist2(p, q) == (p.x - q.x) * (p.x - q.x) + (p.y - q.y) * (p.y - q.y)

NoPress == [phase |-> "none", id |-> 0, t0 |-> 0, t1 |-> 0,
            p0 |-> [x |-> 0, y |-> 0],
            moved |-> FALSE, far |-> FALSE, dragged |-> FALSE]

\* A press is "open" from a pointer-down on an idle interpreter with no
\* tracked pointer until the pointer-up of that pointer ("ended", at t1) or
\* until another pointer-down lands on it ("pinched"); a cancel of its
\* pointer or a reset forgets it, and so does the event after its end.
\*   moved    a move of the pressed pointer was delivered
\*   far      some move was dragStartPx or more away from the press position
\*   dragged  the interpreter was seen in state dragging
PressAfterDown(g, p, pt, t) ==
  IF g.state = "idle" /\ MapSize(g.pointers) = 0
  THEN [NoPress EXCEPT !.phase = "open", !.id = p, !.t0 = t, !.p0 = pt]
  ELSE IF press.phase = "open"
  THEN [press EXCEPT !.phase = "pinched"]
  ELSE NoPress

PressAfterMove(g2, p, pt) ==
  IF press.phase = "open"
  THEN IF p = press.id
       THEN [press EXCEPT !.moved = TRUE,
                          !.far = @ \/ Dist2(pt, press.p0) >= dragStartPx * dragStartPx,
                          !.dragged = @ \/ g2.state = "dragging"]
       ELSE press
  ELSE NoPress

PressAfterUp(p, t) ==
  IF press.phase = "open"
  THEN IF p = press.id
       THEN [press EXCEPT !.phase = "ended", !.t1 = t]
       ELSE press
  ELSE NoPress

PressAfterCancel(p) ==
  IF press.phase = "open" /\ p # press.id THEN press ELSE NoPress

\* ------------------------------------------------------------ SpecGI
GIStart ==
  /\ gi = NewGestureInterpreter
  /\ logged = << >>
  /\ tapLog = << >>
  /\ press = NoPress

InitGI ==
  /\ now \in InitNows
  /\ GIStart
  /\ HookStart
  /\ BoundaryStart
  /\ TrackerStart
  /\ OrderStart
  /\ StoresStart

Tick(d) ==
  /\ now + d <= MaxTime
  /\ now' = now + d
  /\ UNCHANGED <<giVars, hookVars, boundaryVars, trackerVars, tapVars, orderVars, storesVars>>

PointerDown(p, pt) ==
  /\ gi' = onPointerDown(gi, p, pt.x, pt.y, now)
  /\ logged' = onPointerDownLog(gi, p)
  /\ press' = PressAfterDown(gi, p, pt, now)
  /\ UNCHANGED <<now, tapLog, hookVars, boundaryVars, trackerVars, tapVars, orderVars, storesVars>>

PointerMove(p, pt) ==
  /\ gi' = onPointerMove(gi, p, pt.x, pt.y)
  /\ logged' = onPointerMoveLog(gi, p, pt.x, pt.y)
  /\ press' = PressAfterMove(gi', p, pt)
  /\ UNCHANGED <<now, tapLog, hookVars, boundaryVars, trackerVars, tapVars, orderVars, storesVars>>

PointerUp(p) ==
  /\ gi' = onPointerUp(gi, p, now)
  /\ logged' = onPointerUpLog(gi, p, now)
  /\ tapLog' = LogTaps(tapLog, logged', now)
  /\ press' = PressAfterUp(p, now)
  /\ UNCHANGED <<now, hookVars, boundaryVars, trackerVars, tapVars, orderVars, storesVars>>

PointerCancel(p) ==
  /\ gi' = onPointerCancel(gi, p)
  /\ logged' = << >>
  /\ press' = PressAfterCancel(p)
  /\ UNCHANGED <<now, tapLog, hookVars, boundaryVars, trackerVars, tapVars, orderVars, storesVars>>

Reset ==
  /\ gi' = reset(gi)
  /\ logged' = << >>
  /\ tapLog' = << >>
  /\ press' = NoPress
  /\ UNCHANGED <<now, hookVars, boundaryVars, trackerVars, tapVars, orderVars, storesVars>>

NextGI ==
  \/ \E d \in Deltas : Tick(d)
  \/ \E p \in PointerIds, pt \in Points : PointerDown(p, pt)
  \/ \E p \in PointerIds, pt \in Points : PointerMove(p, pt)
  \/ \E p \in PointerIds : PointerUp(p)
  \/ \E p \in PointerIds : PointerCancel(p)
  \/ Reset

SpecGI == InitGI /\ [][NextGI]_vars

TypeGI ==
  /\ gi.state \in {"idle", "pressing", "dragging", "pinching", "released"}
  /\ gi.pointers \subseteq PointerIds
  /\ Len(tapLog) <= 2

\* -------------------------------------------------------------- Spec
\* In Spec the pointer ray misses the drag plane, so the bodies stay where
\* they are: what the handlers do to the interpreters, the store and the body
\* types does not depend on the intersection.  SpecThrow moves the bodies.
HookHits == {NoHit}

Init ==
  /\ now = HookNows[1]
  /\ GIStart
  /\ HookStart
  /\ BoundaryStart
  /\ TrackerStart
  /\ OrderStart
  /\ StoresStart

\* the clock moves on to a later instant
HookTick(i) ==
  /\ HookNows[i] > now
  /\ now' = HookNows[i]
  /\ UNCHANGED <<giVars, hookVars, boundaryVars, trackerVars, tapVars, orderVars, storesVars>>

HandlePointerDown(o, p, pt) ==
  /\ handlePointerDown(o, p, pt)
  /\ UNCHANGED <<now, giVars, boundaryVars, trackerVars, tapVars, orderVars, storesVars>>

HandlePointerMove(o, p, pt, hit) ==
  /\ handlePointerMove(o, p, pt, hit)
  /\ UNCHANGED <<now, giVars, boundaryVars, trackerVars, tapVars, orderVars, storesVars>>

HandlePointerUp(o, p) ==
  /\ handlePointerUp(o, p)
  /\ UNCHANGED <<now, giVars, boundaryVars, trackerVars, tapVars, orderVars, storesVars>>

HandlePointerCancel(o, p) ==
  /\ handlePointerCancel(o, p)
  /\ UNCHANGED <<now, giVars, boundaryVars, trackerVars, tapVars, orderVars, storesVars>>

HandlePointerLeave(o, p) ==
  /\ handlePointerLeave(o, p)
  /\ UNCHANGED <<now, giVars, boundaryVars, trackerVars, tapVars, orderVars, storesVars>>

Next ==
  \/ \E i \in DOMAIN HookNows : HookTick(i)
  \/ \E o \in Objects, p \in HookPointerIds, pt \in HookPoints : HandlePointerDown(o, p, pt)
  \/ \E o \in Objects, p \in HookPointerIds, pt \in HookPoints, hit \in HookHits :
        HandlePointerMove(o, p, pt, hit)
  \/ \E o \in Objects, p \in HookPointerIds : HandlePointerUp(o, p)
  \/ \E o \in Objects, p \in HookPointerIds : HandlePointerCancel(o, p)
  \/ \E o \in Objects, p \in HookPointerIds : HandlePointerLeave(o, p)

Spec == Init /\ [][Next]_vars

TypeHook ==
  /\ store.draggingObjectId \in Objects \cup {Null}
  /\ store.isDragging <=> store.draggingObjectId # Null
  /\ \A o \in Objects : bodyType[o] \in {"dynamic", "kinematic"}

\* ------------------------------------------------------------ SpecThrow
\* One draggable object dragged over the desk with one pointer: the pointer
\* ray hits the drag plane and time passes in steps of 50 ms.
MaxThrowTime == 450
ThrowDeltas == {50}
ThrowObjects == {"A"}
ThrowPointerIds == {1}
\* under the pointer: nothing, a point 35 mm from the body's starting place
\* (approached in steps of 28, 5 and 1 mm, that is 100 mm/s and less when
\* 50 ms apart) or a point 375 mm from it on the diagonal 3:4
ThrowHits == {NoHit, Hit(35, 0), Hit(225, 300)}

InitThrow ==
  /\ now = HookNows[1]
  /\ GIStart
  /\ HookStart
  /\ BoundaryStart
  /\ TrackerStart
  /\ OrderStart
  /\ StoresStart

ThrowTick(d) ==
  /\ now + d <= MaxThrowTime
  /\ now' = now + d
  /\ UNCHANGED <<giVars, hookVars, boundaryVars, trackerVars, tapVars, orderVars, storesVars>>

\* moves are delivered while the tracker holds fewer than MaxTracked samples
ThrowPointerMove(o, p, pt, hit) ==
  /\ Len(tracker[o]) < MaxTracked
  /\ HandlePointerMove(o, p, pt, hit)

NextThrow ==
  \/ \E d \in ThrowDeltas : ThrowTick(d)
  \/ \E o \in ThrowObjects, p \in ThrowPointerIds, pt \in HookPoints :
        HandlePointerDown(o, p, pt)
  \/ \E o \in ThrowObjects, p \in ThrowPointerIds, pt \in HookPoints, hit \in ThrowHits :
        ThrowPointerMove(o, p, pt, hit)
  \/ \E o \in ThrowObjects, p \in ThrowPointerIds : HandlePointerUp(o, p)
  \/ \E o \in ThrowObjects, p \in ThrowPointerIds : HandlePointerCancel(o, p)
  \/ \E o \in ThrowObjects, p \in ThrowPointerIds : HandlePointerLeave(o, p)

SpecThrow == InitThrow /\ [][NextThrow]_vars

\* ---------------------------------------------------------- SpecRelease
\* The drags of SpecThrow, with the calls of every pointer-up observed.
ReleasePointerUp(o, p) ==
  /\ handlePointerUp(o, p)
  /\ calls' = handlePointerUpCalls(o, p)
  /\ UNCHANGED <<now, giVars, boundaryVars, trackerVars, tapVars, rendered, storesVars>>

NextRelease ==
  \/ \E d \in ThrowDeltas : ThrowTick(d)
  \/ \E o \in ThrowObjects, p \in ThrowPointerIds, pt \in HookPoints :
        HandlePointerDown(o, p, pt)
  \/ \E o \in ThrowObjects, p \in ThrowPointerIds, pt \in HookPoints, hit \in ThrowHits :
        ThrowPointerMove(o, p, pt, hit)
  \/ \E o \in ThrowObjects, p \in ThrowPointerIds : ReleasePointerUp(o, p)

SpecRelease == InitThrow /\ [][NextRelease]_vars

\* ------------------------------------------------------------ SpecClamp
\* Drags of both objects, on the default and on the smallest desk, towards
\* points of the drag plane beyond the desk.
ClampHits == {NoHit, Hit(700, 0 - 375), Hit(0 - 10000, 10000)}

InitClamp ==
  /\ now = HookNows[1]
  /\ GIStart
  /\ HookStart
  /\ settings \in {DEFAULT_SETTINGS, MinDeskSettings}
  /\ fileRefs = [id \in FileIds |-> RigidBody(Vec(0, BodyHeight, 0), Vec(0, 0, 0))]
  /\ contentRefs = [id \in ContentIds |-> RigidBody(Vec(0, BodyHeight, 0), Vec(0, 0, 0))]
  /\ before = Refs
  /\ streak = 0
  /\ TrackerStart
  /\ OrderStart
  /\ StoresStart

NextClamp ==
  \/ \E o \in Objects, p \in ThrowPointerIds, pt \in HookPoints :
        HandlePointerDown(o, p, pt)
  \/ \E o \in Objects, p \in ThrowPointerIds, pt \in HookPoints, hit \in ClampHits :
        ThrowPointerMove(o, p, pt, hit)
  \/ \E o \in Objects, p \in ThrowPointerIds : HandlePointerUp(o, p)

SpecClamp == InitClamp /\ [][NextClamp]_vars

\* ------------------------------------------------------------ SpecTaps
\* Taps on the two objects with one pointer, every classified tap observed.
TapPoint == [x |-> 100, y |-> 100]

TapPointerDown(o) ==
  /\ handlePointerDown(o, 1, TapPoint)
  /\ UNCHANGED <<now, giVars, boundaryVars, trackerVars, tapVars, orderVars, storesVars>>

TapPointerUp(o) ==
  /\ handlePointerUp(o, 1)
  /\ lastTapTarget' = LastTapAfterUp(o, 1)
  /\ UNCHANGED <<now, giVars, boundaryVars, trackerVars, orderVars, storesVars>>

TapPointerLeave(o) ==
  /\ handlePointerLeave(o, 1)
  /\ UNCHANGED <<now, giVars, boundaryVars, trackerVars, tapVars, orderVars, storesVars>>

NextTaps ==
  \/ \E i \in DOMAIN HookNows : HookTick(i)
  \/ \E o \in Objects : TapPointerDown(o)
  \/ \E o \in Objects : TapPointerUp(o)
  \/ \E o \in Objects : TapPointerLeave(o)

SpecTaps == Init /\ [][NextTaps]_vars

\* ------------------------------------------------------------ SpecBoundary
InitBoundary ==
  /\ now = 0
  /\ GIStart
  /\ HookStart
  /\ settings \in {DEFAULT_SETTINGS, MinDeskSettings}
  /\ fileRefs = [id \in FileIds |-> RigidBody(Vec(0, BodyHeight, 0), Vec(0, 0, 0))]
  /\ contentRefs = [id \in ContentIds |-> RigidBody(Vec(0, BodyHeight, 0), Vec(0, 0, 0))]
  /\ before = Refs
  /\ streak = 0
  /\ TrackerStart
  /\ OrderStart
  /\ StoresStart

\* the physics step, a drag or a teleport leaves body id at pos with vel
ExternalMove(id, px, pz, vel) ==
  /\ IF id \in FileIds
     THEN /\ fileRefs' = [fileRefs EXCEPT ![id] = RigidBody(Vec(px, BodyHeight, pz), vel)]
          /\ UNCHANGED contentRefs
     ELSE /\ contentRefs' = [contentRefs EXCEPT ![id] = RigidBody(Vec(px, BodyHeight, pz), vel)]
          /\ UNCHANGED fileRefs
  /\ before' = Refs'
  /\ streak' = 0
  /\ UNCHANGED <<settings, now, giVars, hookVars, trackerVars, tapVars, orderVars, storesVars>>

\* one run of the useFrame / setInterval callback
BoundaryEnforcerPass ==
  /\ fileRefs' = EnforceFiles(fileRefs, settings)
  /\ contentRefs' = EnforceContents(contentRefs, settings)
  /\ before' = Refs
  /\ streak' = IF streak < 2 THEN streak + 1 ELSE streak
  /\ UNCHANGED <<settings, now, giVars, hookVars, trackerVars, tapVars, orderVars, storesVars>>

NextBoundary ==
  \/ \E id \in FileIds \cup ContentIds, sx \in Sides, ox \in Overs,
        sz \in Sides, oz \in OversZ, vel \in VelInputs :
        ExternalMove(id, AxisInput(LimitX(id), sx, ox), AxisInput(LimitZ(id), sz, oz), vel)
  \/ BoundaryEnforcerPass

SpecBoundary == InitBoundary /\ [][NextBoundary]_vars

\* ------------------------------------------------------------ SpecFrames
\* AR mode.  The XR frame callback runs the useFrame subscribers, among them
\* the step of <Physics>, and then renders the scene, in one task; the
\* BoundaryEnforcer of ARMode.tsx runs in a task of its own, from setInterval.
FrameSidesZ == {0}

\* every body is within the region inset by its margin
AllInside(refs) ==
  \A id \in DOMAIN refs :
    /\ refs[id].pos.x <= LimitX(id) /\ refs[id].pos.x >= 0 - LimitX(id)
    /\ refs[id].pos.z <= LimitZ(id) /\ refs[id].pos.z >= 0 - LimitZ(id)

InitFrames ==
  /\ now = 0
  /\ GIStart
  /\ HookStart
  /\ BoundaryStart
  /\ TrackerStart
  /\ OrderStart
  /\ StoresStart

\* a frame whose physics step leaves body id at (px, pz) with vel
XRFrame(id, px, pz, vel) ==
  /\ IF id \in FileIds
     THEN /\ fileRefs' = [fileRefs EXCEPT ![id] = RigidBody(Vec(px, BodyHeight, pz), vel)]
          /\ UNCHANGED contentRefs
     ELSE /\ contentRefs' = [contentRefs EXCEPT ![id] = RigidBody(Vec(px, BodyHeight, pz), vel)]
          /\ UNCHANGED fileRefs
  /\ before' = Refs'
  /\ streak' = 0
  /\ rendered' = [shown |-> TRUE, enforced |-> streak' >= 1, inside |-> AllInside(Refs')]
  /\ UNCHANGED <<settings, calls, now, giVars, hookVars, trackerVars, tapVars, storesVars>>

\* a frame whose physics step moves no body (all at rest)
XRFrameAtRest ==
  /\ rendered' = [shown |-> TRUE, enforced |-> streak >= 1, inside |-> AllInside(Refs)]
  /\ UNCHANGED <<calls, now, giVars, hookVars, boundaryVars, trackerVars, tapVars, storesVars>>

\* the setInterval callback of ARMode.tsx
IntervalPass == BoundaryEnforcerPass

NextFrames ==
  \/ \E id \in FileIds \cup ContentIds, sx \in Sides, ox \in Overs,
        sz \in FrameSidesZ, vel \in VelInputs :
        XRFrame(id, AxisInput(LimitX(id), sx, ox), AxisInput(LimitZ(id), sz, 0), vel)
  \/ XRFrameAtRest
  \/ IntervalPass

SpecFrames == InitFrames /\ [][NextFrames]_vars

\* ------------------------------------------------------------ SpecTracker
\* One PointerVelocityTracker driven through its methods.
MaxTrackerTime == 200
\* the clock step between calls; several calls may share an instant
TrackerDeltas == {50}
TrackerPositions == {Vec(0, 0, 0), Vec(100, 0, 0 - 200)}

InitTracker ==
  /\ now = 0
  /\ GIStart
  /\ HookStart
  /\ BoundaryStart
  /\ TrackerStart
  /\ OrderStart
  /\ StoresStart

TrackerTick(d) ==
  /\ now + d <= MaxTrackerTime
  /\ now' = now + d
  /\ velocity' = NotAsked
  /\ UNCHANGED <<samples, giVars, hookVars, boundaryVars, tapVars, orderVars, storesVars>>

AddSample(position) ==
  /\ Len(samples) < MaxTracked
  /\ samples' = addSample(samples, position, now)
  /\ velocity' = NotAsked
  /\ UNCHANGED <<now, giVars, hookVars, boundaryVars, tapVars, orderVars, storesVars>>

GetVelocity ==
  /\ velocity' = [asked |-> TRUE, result |-> getVelocity(samples, now)]
  /\ UNCHANGED <<now, samples, giVars, hookVars, boundaryVars, tapVars, orderVars, storesVars>>

Clear ==
  /\ samples' = clear(samples)
  /\ velocity' = NotAsked
  /\ UNCHANGED <<now, giVars, hookVars, boundaryVars, tapVars, orderVars, storesVars>>

NextTracker ==
  \/ \E d \in TrackerDeltas : TrackerTick(d)
  \/ \E position \in TrackerPositions : AddSample(position)
  \/ GetVelocity
  \/ Clear

SpecTracker == InitTracker /\ [][NextTracker]_vars

\* -------------------------------------------------------------- claims on Spec
Owner == store.draggingObjectId

\* C1  Lock exclusivity: while an object A owns the drag state, a pointer-down
\* on another object B changes neither the owner nor B's interpreter; the
\* owner changes only when a pointer-up, pointer-cancel or pointer-leave
\* handler of the owner itself releases it (to null); and a pointer-down on
\* B while the drag state is free makes B the owner.
C1_LockExclusivity ==
  /\ [][\A b \in Objects, p \in HookPointerIds, pt \in HookPoints :
         (Owner \notin {Null, b} /\ HandlePointerDown(b, p, pt))
         => (Owner' = Owner /\ interp'[b] = interp[b])]_vars
  /\ [][(Owner # Null /\ Owner' # Owner)
         => /\ Owner' = Null
            /\ \E p \in HookPointerIds :
                 \/ HandlePointerUp(Owner, p)
                 \/ HandlePointerCancel(Owner, p)
                 \/ HandlePointerLeave(Owner, p)]_vars
  /\ [][\A b \in Objects, p \in HookPointerIds, pt \in HookPoints :
         (Owner = Null /\ HandlePointerDown(b, p, pt)) => Owner' = b]_vars

\* a pointer-down on B has just been swallowed because A owns the drag state
C1_Witness ==
  /\ Owner = "A"
  /\ ignored = "B"
  /\ interp["B"].state = "idle" /\ MapSize(interp["B"].pointers) = 0

\* C2  At most one object is manipulated at a time: an object whose
\* interpreter is in dragging is the current owner of the drag state (so no
\* two objects are in dragging, and none is while the lock is free).
C2_AtMostOneManipulated ==
  \A o \in Objects : interp[o].state = "dragging" => Owner = o

\* C3  No stuck lock: the drag state is never owned by an object on which
\* no pointer is pressed, whether the press ended as a tap, a long press, a
\* pinch or a drag.
C3_NoStuckLock ==
  Owner # Null => MapSize(interp[Owner].pointers) > 0

\* C4  ManipulationLock invariant: the owner is non-null only while the
\* owner, and no other object, is in dragging; it is null while the owner
\* is pressing, pinching or idle.
C4_LockOnlyWhileDragging ==
  Owner # Null =>
    /\ interp[Owner].state = "dragging"
    /\ \A o \in Objects \ {Owner} : interp[o].state # "dragging"

\* C5  No path out of dragging omits the release: once a pointer-up,
\* pointer-cancel, pointer-leave or a second pointer-down (turning the
\* gesture into pinching) has taken the owner's interpreter out of dragging,
\* the owner no longer holds the drag state when its gesture has ended (no
\* pointer is tracked any more).
C5_ReleaseOnLeavingDrag ==
  \A o \in leftDrag : MapSize(interp[o].pointers) = 0 => Owner # o

\* ------------------------------------------------------ claims on SpecBoundary
BodyIds == FileIds \cup ContentIds
Abs(n) == IF n < 0 THEN 0 - n ELSE n

\* within the limits on both axes and exactly on the limit of at least one
OnLimit(b, id) ==
  /\ Abs(b.pos.x) <= LimitX(id) /\ Abs(b.pos.z) <= LimitZ(id)
  /\ (Abs(b.pos.x) = LimitX(id) \/ Abs(b.pos.z) = LimitZ(id))

\* C9  Boundary idempotence: a pass leaves a body that sits exactly on the
\* limit (either side of either axis, the other axis in bounds) with zero
\* velocity unchanged in position and velocity, and a pass that follows a
\* pass immediately changes no body at all.
C9_BoundaryIdempotence ==
  /\ streak >= 1 =>
       \A id \in BodyIds :
         (OnLimit(before[id], id) /\ before[id].vel = Vec(0, 0, 0))
         => Refs[id] = before[id]
  /\ streak = 2 => Refs = before

\* two passes in a row over a file at rest on the +x limit and a content
\* panel that the first pass had to bounce back
C9_Witness ==
  /\ streak = 2
  /\ fileRefs["file1"].pos.x = LimitX("file1")
  /\ fileRefs["file1"].vel = Vec(0, 0, 0)
  /\ contentRefs["content1"].pos.z = 0 - LimitZ("content1")
  /\ contentRefs["content1"].vel.z = 150

\* C10  Bounce energy loss: a pass that finds a body beyond the limit on one
\* horizontal axis, moving outward with velocity v on it, clamps that axis
\* to the limit and leaves it with velocity -v/2, and leaves the velocity on
\* the other horizontal axis unchanged if that axis was in bounds.
C10_BounceEnergyLoss ==
  streak = 1 =>
    \A id \in BodyIds :
      LET b == before[id]
          a == Refs[id]
      IN  /\ (b.pos.x > LimitX(id) /\ b.vel.x > 0 /\ Abs(b.pos.z) <= LimitZ(id))
             => (a.pos.x = LimitX(id) /\ 2 * a.vel.x = 0 - b.vel.x /\ a.vel.z = b.vel.z)
          /\ (b.pos.x < 0 - LimitX(id) /\ b.vel.x < 0 /\ Abs(b.pos.z) <= LimitZ(id))
             => (a.pos.x = 0 - LimitX(id) /\ 2 * a.vel.x = 0 - b.vel.x /\ a.vel.z = b.vel.z)
          /\ (b.pos.z > LimitZ(id) /\ b.vel.z > 0 /\ Abs(b.pos.x) <= LimitX(id))
             => (a.pos.z = LimitZ(id) /\ 2 * a.vel.z = 0 - b.vel.z /\ a.vel.x = b.vel.x)
          /\ (b.pos.z < 0 - LimitZ(id) /\ b.vel.z < 0 /\ Abs(b.pos.x) <= LimitX(id))
             => (a.pos.z = 0 - LimitZ(id) /\ 2 * a.vel.z = 0 - b.vel.z /\ a.vel.x = b.vel.x)

\* the default desk: a file Overshoot mm beyond the +x limit moving outward at
\* 1000 mm/s is back on the limit at -500 mm/s, its z velocity still 300
C10_Witness ==
  /\ streak = 1
  /\ settings = DEFAULT_SETTINGS
  /\ before["file1"].pos.x = halfWidthOf(settings) - fileMargin + Overshoot
  /\ before["file1"].vel = Vec(1000, 0 - 200, 300)
  /\ Abs(before["file1"].pos.z) < LimitZ("file1")
  /\ fileRefs["file1"].pos.x = halfWidthOf(settings) - fileMargin
  /\ fileRefs["file1"].vel = Vec(0 - 500, 0 - 200, 300)

\* the value of the interval [0 - limit, limit] nearest to v
Nearest(v, limit) ==
  IF v < 0 - limit THEN 0 - limit ELSE IF v > limit THEN limit ELSE v

\* C11  Boundary containment: after every enforcement pass every tracked
\* body, file or content, has x within [-(deskWidth/2 - margin),
\* deskWidth/2 - margin] and z within [-(deskHeight/2 - margin),
\* deskHeight/2 - margin] for the margin of its kind, however far outside it
\* was: a coordinate that was out of bounds is on the nearest limit, one
\* that was in bounds is where it was.
C11_BoundaryContainment ==
  streak >= 1 =>
    \A id \in BodyIds :
      /\ Abs(Refs[id].pos.x) <= (settings.deskWidth \div 2) - marginOf(id)
      /\ Abs(Refs[id].pos.z) <= (settings.deskHeight \div 2) - marginOf(id)
      /\ Refs[id].pos.x = Nearest(before[id].pos.x, LimitX(id))
      /\ Refs[id].pos.z = Nearest(before[id].pos.z, LimitZ(id))
      /\ Refs[id].pos.y = before[id].pos.y

\* a pass has just brought back a content panel that was beyond the -x limit
\* and teleported far beyond the +z limit, and a file that was in bounds
C11_Witness ==
  /\ streak = 1
  /\ before["content1"].pos.x = 0 - (LimitX("content1") + Overshoot)
  /\ before["content1"].pos.z = LimitZ("content1") + Teleport
  /\ contentRefs["content1"].pos.x = 0 - LimitX("content1")
  /\ contentRefs["content1"].pos.z = LimitZ("content1")
  /\ before["file1"].pos.x = 0 /\ fileRefs["file1"].pos.x = 0

\* ------------------------------------------------------------ claims on SpecGI

\* C6  Tap vs. drag: a single pointer-down/pointer-up pair on an idle
\* interpreter whose moves all stay strictly below dragStartPx from the press
\* position and whose duration is strictly below tapMaxMs ends in idle, logs
\* exactly one line, a single tap or a double-tap, and the interpreter was
\* never in dragging during the press.
C6_TapNotDrag ==
  [][\A p \in PointerIds :
       ( /\ press.phase = "open" /\ p = press.id
         /\ ~press.far
         /\ now - press.t0 < tapMaxMs
         /\ PointerUp(p) )
       => /\ gi'.state = "idle"
          /\ ~gi'.isDragging
          /\ ~press.dragged /\ gi.state # "dragging"
          /\ logged' \in {<<"single tap">>, <<"double-tap detected">>}]_vars

\* a press that moved by less than dragStartPx and lasted 150 ms has just ended
C6_Witness ==
  /\ press.phase = "ended"
  /\ press.moved /\ ~press.far
  /\ press.t1 > press.t0 /\ press.t1 - press.t0 < tapMaxMs
  /\ logged = <<"single tap">>
  /\ gi.state = "idle"

CountKind(kind) == Cardinality({i \in 1..Len(tapLog) : tapLog[i].kind = kind})
TapGap == tapLog[2].t - tapLog[1].t

\* C7 as stated: two taps less than doubleTapMaxMs apart yield exactly one
\* double-tap event and zero single-tap events for the pair; more than
\* doubleTapMaxMs apart they yield two single-tap events and no double-tap.
\* (Pairs whose first tap comes after the first doubleTapMaxMs of the clock.)
C7_Original ==
  (Len(tapLog) = 2 /\ tapLog[1].t >= doubleTapMaxMs) =>
    /\ TapGap < doubleTapMaxMs =>
         CountKind("double-tap detected") = 1 /\ CountKind("single tap") = 0
    /\ (TapGap > doubleTapMaxMs /\ tapLog[1].kind = "single tap") =>
         CountKind("double-tap detected") = 0 /\ CountKind("single tap") = 2

\* C7 amended: of two consecutive taps on one interpreter (no reset between)
\* the first of which was logged as a single tap, the second is logged as a
\* double-tap if its pointer-up comes less than doubleTapMaxMs after the
\* first's, and as a single tap otherwise: the pair yields one single-tap
\* and one double-tap event, or two single-tap events.
C7_DoubleTapWindow ==
  (Len(tapLog) = 2 /\ tapLog[1].kind = "single tap") =>
    IF TapGap < doubleTapMaxMs
    THEN tapLog[2].kind = "double-tap detected"
    ELSE tapLog[2].kind = "single tap"

\* a single tap followed 150 ms later by a tap logged as double-tap
C7_Witness ==
  /\ Len(tapLog) = 2
  /\ tapLog[1].kind = "single tap"
  /\ tapLog[2].kind = "double-tap detected"
  /\ TapGap > 0 /\ TapGap < doubleTapMaxMs
  /\ logged = <<"double-tap detected">>

\* C8  Pinch precedence: a pointer-down that makes the pointer count 2 while
\* the interpreter is pressing or dragging moves it to pinching and clears
\* the dragging flag; while two or more pointers are tracked the state is
\* pinching and the dragging flag is off, so no move can start or continue
\* a single-finger drag.
C8_PinchPrecedence ==
  /\ [](MapSize(gi.pointers) >= 2 => (gi.state = "pinching" /\ ~gi.isDragging))
  /\ [][\A p \in PointerIds, pt \in Points :
         ( /\ gi.state \in {"pressing", "dragging"}
           /\ MapSize(MapSet(gi.pointers, p)) = 2
           /\ PointerDown(p, pt) )
         => (gi'.state = "pinching" /\ ~gi'.isDragging)]_vars

\* a second pointer has just landed on a press that was dragging
C8_Witness ==
  /\ press.phase = "pinched" /\ press.dragged
  /\ MapSize(gi.pointers) = 2
  /\ gi.state = "pinching" /\ ~gi.isDragging
  /\ logged = <<"pinching">>

\* C16  Any state goes to idle on cancellation: after onPointerCancel for
\* any pointer, from pressing, dragging or pinching and with any number of
\* tracked pointers, the interpreter is in state idle.
C16_CancelGoesIdle ==
  [][\A p \in PointerIds :
       (gi.state \in {"pressing", "dragging", "pinching"} /\ PointerCancel(p))
       => gi'.state = "idle"]_vars

\* C17  Leaving a pinch: when the interpreter is pinching with two tracked
\* pointers and one of them is lifted, so that one pointer remains, the
\* state becomes idle.
C17_LeavingPinch ==
  [][\A p \in PointerIds :
       ( /\ gi.state = "pinching"
         /\ MapSize(gi.pointers) = 2 /\ MapHas(gi.pointers, p)
         /\ PointerUp(p) )
       => gi'.state = "idle"]_vars

\* C18  Idle when all pointers lift: in every reachable state, if no
\* pointer is tracked then the gesture state is idle and the dragging flag
\* is false.
C18_IdleWhenNoPointers ==
  MapSize(gi.pointers) = 0 => (gi.state = "idle" /\ ~gi.isDragging)

\* the pointer of a press that had become a drag has just been lifted
C18_Witness ==
  /\ press.phase = "ended" /\ press.dragged
  /\ logged = <<"released (throw)">>
  /\ MapSize(gi.pointers) = 0
  /\ gi.state = "idle" /\ ~gi.isDragging

\* C19  No triple-tap misfire: the tap that follows a tap classified as a
\* double-tap (no reset() between them) is classified as a single tap,
\* however soon it follows and whatever the clock value is.
C19_NoTripleTap ==
  (Len(tapLog) = 2 /\ tapLog[1].kind = "double-tap detected")
  => tapLog[2].kind = "single tap"

\* ------------------------------------------------------ claims on SpecTracker
\* the samples younger than maxAge at the time of the call, oldest first
Recent == {i \in 1..Len(samples) : now - samples[i].timestamp < maxAge}
\* adjacent recent samples with different timestamps
TimedPairs ==
  {i \in Recent : i - 1 \in Recent /\ samples[i].timestamp # samples[i - 1].timestamp}

\* C14  Degenerate velocity computation: getVelocity returns the zero vector
\* whenever fewer than 2 samples lie within the max-age window; adjacent
\* pairs with equal timestamps are skipped (the result is zero if no pair
\* remains, and the velocity of the remaining pair if one remains); the
\* result is always finite (no division by zero).
C14_DegenerateVelocity ==
  velocity.asked =>
    /\ velocity.result.finite
    /\ Cardinality(Recent) < 2 => velocity.result = ZeroVelocity
    /\ TimedPairs = {} => velocity.result = ZeroVelocity
    /\ \A i \in TimedPairs :
         TimedPairs = {i} =>
           LET dt == samples[i].timestamp - samples[i - 1].timestamp
           IN  /\ velocity.result.x * dt = (samples[i].position.x - samples[i - 1].position.x) * 1000
               /\ velocity.result.z * dt = (samples[i].position.z - samples[i - 1].position.z) * 1000

\* getVelocity has just been asked with three recent samples, the first two
\* taken at the same instant in different places, the third 50 ms later
C14_Witness ==
  /\ velocity.asked
  /\ Len(samples) = 3 /\ Cardinality(Recent) = 3
  /\ samples[1].timestamp = samples[2].timestamp
  /\ samples[1].position # samples[2].position
  /\ samples[3].timestamp = samples[2].timestamp + 50
  /\ velocity.result = [x |-> 2000, y |-> 0, z |-> 0 - 4000, finite |-> TRUE]

\* ------------------------------------------------------ claims on SpecThrow
\* C12  Cancellation never throws and never strands a body: a pointer-cancel
\* or pointer-leave on a pressed or dragged object applies no impulse,
\* whatever the velocity tracker holds, and leaves its body in dynamic mode.
C12_CancelNeverThrows ==
  [][\A o \in Objects, p \in HookPointerIds :
       ( /\ interp[o].state \in {"pressing", "dragging"}
         /\ (HandlePointerCancel(o, p) \/ HandlePointerLeave(o, p)) )
       => (~impulse'.applied /\ bodyType'[o] = "dynamic")]_vars

\* a drag of A that carried the body from its starting place to (28, 0) and
\* on to (185, 240) has ended: nothing is thrown, the body is dynamic and the
\* lock is free
C12_Witness ==
  /\ leftDrag = {"A"}
  /\ interp["A"].state = "idle"
  /\ bodyPos["A"] = Vec(185, BodyHeight, 240)
  /\ tracker["A"] = << >>
  /\ bodyType["A"] = "dynamic"
  /\ ~impulse.applied
  /\ store.draggingObjectId = Null

\* the squared length of the horizontal part of a vector
HorizontalSq(v) == v.x * v.x + v.z * v.z

\* imp is mass times the velocity est with its speed clamped to at most
\* maxThrowSpeed: equal to mass times est when est is no faster than
\* maxThrowSpeed, and otherwise along est, in its sense, with the length mass
\* times maxThrowSpeed to within 2 mm/s (velocities are whole mm/s)
IsClampedThrowOf(imp, est) ==
  LET top == Quot(maxThrowSpeed * massPct, 100)
  IN  /\ imp.y = 0
      /\ IF HorizontalSq(est) <= maxThrowSpeed * maxThrowSpeed
         THEN /\ imp.x = Quot(est.x * massPct, 100)
              /\ imp.z = Quot(est.z * massPct, 100)
         ELSE /\ imp.x * est.x >= 0
              /\ imp.z * est.z >= 0
              /\ Abs(imp.x * est.z - imp.z * est.x) <= Abs(est.x) + Abs(est.z)
              /\ HorizontalSq(imp) <= (top + 2) * (top + 2)
              /\ HorizontalSq(imp) >= (top - 2) * (top - 2)

\* C13  Throw on release: the pointer-up that ends a drag applies an impulse
\* if and only if the velocity tracker has enough samples and the estimated
\* horizontal speed exceeds minThrowSpeed; the impulse is the estimated
\* velocity, clamped to maxThrowSpeed, times the mass constant, with no
\* vertical part; a release that was not a drag applies none.
C13_ThrowOnRelease ==
  [][\A o \in Objects, p \in HookPointerIds :
       (HandlePointerUp(o, p) /\ ~OtherIsDragged(o))
       => LET est == getVelocity(tracker[o], now)
              fast == /\ hasEnoughSamples(tracker[o])
                      /\ HorizontalSq(est) > minThrowSpeed * minThrowSpeed
          IN  IF interp[o].state = "dragging" /\ p \in interp[o].pointers
              THEN /\ impulse'.applied <=> fast
                   /\ impulse'.applied => IsClampedThrowOf(impulse', est)
              ELSE interp[o].state \in {"idle", "pressing"} => ~impulse'.applied]_vars

\* a drag that moved the body from (28, 0) to (185, 240) in 50 ms, that is
\* at (3140, 4800) mm/s, has been released: the impulse is 0.8 times
\* 5000 mm/s along that velocity
C13_Witness ==
  /\ impulse = [applied |-> TRUE, x |-> 2189, y |-> 0, z |-> 3347]
  /\ bodyPos["A"] = Vec(185, BodyHeight, 240)
  /\ interp["A"].state = "idle"
  /\ bodyType["A"] = "dynamic"
  /\ store.draggingObjectId = Null

\* ----------------------------------------------------------- claims on Spec
\* C15  Lock contention is a no-op: while another object holds the drag
\* state, a pointer-down, -move, -up, -cancel or -leave delivered to object b
\* leaves b's interpreter in idle with no tracked pointers, and leaves the
\* owner, b's body mode, b's position and b's velocity tracker unchanged.
C15_ContentionNoOp ==
  [][\A b \in Objects, p \in HookPointerIds :
       ( /\ OtherIsDragged(b)
         /\ \/ \E pt \in HookPoints : HandlePointerDown(b, p, pt)
            \/ \E pt \in HookPoints, hit \in HookHits : HandlePointerMove(b, p, pt, hit)
            \/ HandlePointerUp(b, p)
            \/ HandlePointerCancel(b, p)
            \/ HandlePointerLeave(b, p) )
       => /\ interp'[b].state = "idle"
          /\ MapSize(interp'[b].pointers) = 0
          /\ store' = store
          /\ bodyType'[b] = bodyType[b]
          /\ bodyPos'[b] = bodyPos[b]
          /\ tracker'[b] = tracker[b]]_vars

\* ------------------------------------------------------- claims on SpecTaps
\* C20  Double-tap binds to target identity: a tap on an object is
\* classified as a double-tap only if the tap classified immediately before
\* it, on any object, landed on the same object; the taps A, B, A within
\* doubleTapMaxMs produce no double-tap.
C20_DoubleTapSameTarget ==
  [][\A o \in Objects :
       ( /\ TapPointerUp(o)
         /\ ~OtherIsDragged(o)
         /\ onPointerUpLog(interp[o], 1, now) = <<"double-tap detected">> )
       => lastTapTarget = o]_vars

\* C21  Untracked pointer ids are ignored: a pointer-move or pointer-up for a
\* pointer id the object's interpreter does not track leaves the gesture
\* state, the tracked pointers, the press-start reference, the last-tap timer
\* and the lock ownership as they were, in every state.
C21_UntrackedIgnored ==
  [][\A o \in Objects, p \in HookPointerIds :
       ( /\ ~MapHas(interp[o].pointers, p)
         /\ \/ \E pt \in HookPoints, hit \in HookHits : HandlePointerMove(o, p, pt, hit)
            \/ HandlePointerUp(o, p) )
       => /\ interp'[o] = interp[o]
          /\ store'.draggingObjectId = store.draggingObjectId]_vars

\* ------------------------------------------------------ claims on SpecGI
\* C22  Duplicate pointer-down is ignored: onPointerDown for a pointer id
\* that is already tracked leaves the gesture state, the dragging flag, the
\* press-start time and the press-start position unchanged.
C22_DuplicateDownIgnored ==
  [][\A p \in PointerIds, pt \in Points :
       (MapHas(gi.pointers, p) /\ PointerDown(p, pt))
       => /\ gi'.state = gi.state
          /\ gi'.isDragging = gi.isDragging
          /\ gi'.pressStartTime = gi.pressStartTime
          /\ gi'.pressStartPosition = gi.pressStartPosition]_vars

\* ---------------------------------------------------- claims on SpecRelease
\* C23  Release is the final step of ending a drag: in the pointer-up that
\* ends a drag the lock is released after the body was switched back to
\* dynamic and after the throw impulse, if any, was applied, and it is
\* released whether or not an impulse was applied.
C23_ReleaseIsLast ==
  [][\A o \in Objects, p \in HookPointerIds :
       ( /\ ReleasePointerUp(o, p)
         /\ ~OtherIsDragged(o)
         /\ interp[o].state = "dragging" /\ MapHas(interp[o].pointers, p) )
       => /\ calls' # << >>
          /\ calls'[Len(calls')] = "setDragging"
          /\ \E i \in 1..Len(calls') : calls'[i] = "setBodyType"]_vars

\* ----------------------------------------------------- claims on SpecFrames
\* C24  Enforcement ordering: within each tick the boundary enforcement pass
\* runs after the position updates and the physics step of that tick, so no
\* out-of-bounds position is left when the tick's state is observed: every
\* rendered frame shows every body inside the region.
C24_EnforcementOrdering ==
  rendered.shown => rendered.inside

\* ---------------------------------------------------- claims on SpecTracker
\* C25  Sample buffer pruning: after an addSample call the tracker holds at
\* most maxSamples samples, in arrival order, and no sample older than the
\* max-age window.
C25_BufferPruning ==
  [][\A position \in TrackerPositions :
       AddSample(position)
       => /\ Len(samples') <= maxSamples
          /\ \A i \in 1..(Len(samples') - 1) :
               samples'[i].timestamp <= samples'[i + 1].timestamp
          /\ samples'[Len(samples')] = [position |-> position, timestamp |-> now]
          /\ \A i \in 1..Len(samples') : now - samples'[i].timestamp < maxAge]_vars

\* C26  hasEnoughSamples reports whether a velocity estimate is meaningful:
\* it is true exactly when at least 2 samples lie within the max-age window,
\* so a getVelocity asked while it is true is not the zero fallback for lack
\* of samples.
C26_EnoughMeansMeaningful ==
  hasEnoughSamples(samples) <=> Cardinality(Recent) >= 2

\* the velocity of the pair ending at sample i, per axis (mm/s)
PairVx(i) ==
  Quot((samples[i].position.x - samples[i - 1].position.x) * 1000,
       samples[i].timestamp - samples[i - 1].timestamp)
PairVz(i) ==
  Quot((samples[i].position.z - samples[i - 1].position.z) * 1000,
       samples[i].timestamp - samples[i - 1].timestamp)
\* exp(-age / 30) of the pair's newer sample, in thousandths
PairWeight(i) == ExpWeight(now - samples[i].timestamp)
\* the squared distance from the velocity v to the velocity of pair i
PairDist2(v, i) ==
  (v.x - PairVx(i)) * (v.x - PairVx(i)) + (v.z - PairVz(i)) * (v.z - PairVz(i))
NewestPair == CHOOSE n \in TimedPairs : \A i \in TimedPairs : i <= n

C28_DragStartThreshold ==
  [][\A p \in PointerIds, pt \in Points :
       (MapHas(gi.pointers, p) /\ PointerMove(p, pt))
       => /\ gi.state = "pressing" =>
               /\ gi'.state = (IF Dist2(pt, gi.pressStartPosition) > dragStartPx * dragStartPx
                               THEN "dragging" ELSE "pressing")
               /\ (press.phase = "open" /\ p = press.id)
                    => gi.pressStartPosition = press.p0
          /\ gi.state = "dragging" => gi'.state = "dragging"]_vars

\* a press that moved exactly dragStartPx away from its start, and no
\* farther, is still pressing
C28_Witness ==
  /\ press.phase = "open"
  /\ press.moved /\ press.far /\ ~press.dragged
  /\ gi.state = "pressing"

\* ----------------------------------------------------------- claims on Spec
\* C29  Kinematic while dragged: in every reachable state in which an
\* object's interpreter is in dragging its body is kinematic and its velocity
\* tracker holds only samples recorded since the current press began.
C29_KinematicWhileDragged ==
  \A o \in Objects :
    interp[o].state = "dragging" =>
      /\ bodyType[o] = "kinematic"
      /\ \A i \in 1..Len(tracker[o]) :
           tracker[o][i].timestamp >= interp[o].pressStartTime

\* ------------------------------------------------------ claims on SpecClamp
\* C30  Drag clamp: every position that a pointer-move writes to the body
\* while dragging has x within deskWidth/2 - margin and z within
\* deskHeight/2 - margin of the centre, for the object's configured margin,
\* wherever the pointer target lies, and leaves the body's height unchanged.
C30_DragClamp ==
  [][\A o \in Objects, p \in HookPointerIds, pt \in HookPoints, hit \in ClampHits :
       ( /\ HandlePointerMove(o, p, pt, hit)
         /\ ~OtherIsDragged(o)
         /\ hit.hit /\ interp'[o].state = "dragging" )
       => /\ Abs(bodyPos'[o].x) <= (settings.deskWidth \div 2) - boundaryMarginOf(o)
          /\ Abs(bodyPos'[o].z) <= (settings.deskHeight \div 2) - boundaryMarginOf(o)
          /\ bodyPos'[o].y = bodyPos[o].y
          /\ tracker'[o] # << >>]_vars

\* the content panel is being dragged towards (700, -375) on the default
\* desk and was stopped at its limits (500, -250)
C30_Witness ==
  /\ settings = DEFAULT_SETTINGS
  /\ interp["B"].state = "dragging"
  /\ bodyPos["B"] = Vec(500, BodyHeight, 0 - 250)
  /\ Len(tracker["B"]) = 1

\* ---------------------------------------------------------- SpecSamples
\* Drags of object A with two pointers (so that pressing, dragging and
\* pinching all occur), towards a near point and a point beyond the desk.
SampleHits == {NoHit, Hit(35, 0), Hit(700, 0 - 375)}

NextSamples ==
  \/ \E o \in ThrowObjects, p \in HookPointerIds, pt \in HookPoints :
        HandlePointerDown(o, p, pt)
  \/ \E o \in ThrowObjects, p \in HookPointerIds, pt \in HookPoints, hit \in SampleHits :
        ThrowPointerMove(o, p, pt, hit)
  \/ \E o \in ThrowObjects, p \in HookPointerIds : HandlePointerUp(o, p)
  \/ \E o \in ThrowObjects, p \in HookPointerIds : HandlePointerCancel(o, p)
  \/ \E o \in ThrowObjects, p \in HookPointerIds : HandlePointerLeave(o, p)

SpecSamples == InitThrow /\ [][NextSamples]_vars

\* the tracker of o holds one sample more after the step
SampleAdded(o) == Len(tracker'[o]) = Len(tracker[o]) + 1

\* the newest sample of a tracker
NewestSample(tr) == tr[Len(tr)]

WithinLimits(b, id) ==
  /\ b.pos.x >= 0 - LimitX(id) /\ b.pos.x <= LimitX(id)
  /\ b.pos.z >= 0 - LimitZ(id) /\ b.pos.z <= LimitZ(id)

\* C32  Frame of the boundary policy: an enforcement pass neither adds nor
\* removes a tracked body, changes no body's vertical position or vertical
\* velocity, and leaves position and velocity of every body that is within
\* the limits on both horizontal axes as they were.
C32_BoundaryFrame ==
  streak >= 1 =>
    /\ DOMAIN fileRefs \cup DOMAIN contentRefs = DOMAIN before
    /\ DOMAIN fileRefs = FileIds /\ DOMAIN contentRefs = ContentIds
    /\ \A id \in BodyIds :
         /\ Refs[id].pos.y = before[id].pos.y
         /\ Refs[id].vel.y = before[id].vel.y
         /\ WithinLimits(before[id], id) => Refs[id] = before[id]

\* one pass over a file found beyond the +x limit while falling at 200 mm/s
\* (bounced, still falling) and a moving content panel at the centre of the
\* desk (untouched)
C32_Witness ==
  /\ streak = 1
  /\ before["file1"].pos.x > LimitX("file1")
  /\ before["file1"].vel.y = 0 - 200
  /\ fileRefs["file1"].pos.x = LimitX("file1")
  /\ fileRefs["file1"].pos.y = before["file1"].pos.y
  /\ fileRefs["file1"].vel.y = 0 - 200
  /\ before["content1"].pos.x = 0 /\ before["content1"].pos.z = 0
  /\ before["content1"].vel = Vec(0 - 1000, 0, 0 - 300)
  /\ contentRefs["content1"] = before["content1"]

\* C35  No outward velocity after a bounce: after a pass clamped a body on a
\* horizontal axis, its velocity on that axis is zero or points into the
\* region, also when the body was found beyond the limit moving inward.
C35_NoOutwardVelocity ==
  streak = 1 =>
    \A id \in BodyIds :
      LET b == before[id]
          a == Refs[id]
      IN  /\ b.pos.x > LimitX(id) => a.vel.x <= 0
          /\ b.pos.x < 0 - LimitX(id) => a.vel.x >= 0
          /\ b.pos.z > LimitZ(id) => a.vel.z <= 0
          /\ b.pos.z < 0 - LimitZ(id) => a.vel.z >= 0

\* C33  The transient state released is never observable: after every
\* handler the state is idle, pressing, dragging or pinching, and dragging
\* holds only with exactly one tracked pointer (so the pointer-up that sets
\* released also empties the pointer set and goes to idle in the same call).
C33_ReleasedNotObservable ==
  /\ gi.state \in {"idle", "pressing", "dragging", "pinching"}
  /\ gi.state = "dragging" => MapSize(gi.pointers) = 1

\* onPointerUp has just taken the branch that sets released, and returned
C33_Witness ==
  /\ logged = <<"released (throw)">>
  /\ gi.pointers = EmptyMap
  /\ gi.state = "idle"

\* C34  Flag/state agreement: in every reachable state isDraggingGesture()
\* is true if and only if getState() is dragging.
C34_FlagStateAgreement ==
  isDraggingGesture(gi) <=> gi.state = "dragging"

\* the move that crossed the drag threshold has just been processed: the
\* state is dragging and the flag is set
C34_Witness ==
  /\ gi.state = "dragging"
  /\ isDraggingGesture(gi)
  /\ press.dragged
  /\ logged = <<"dragging started">>

\* ----------------------------------------------------------- SpecStores
\* The content store with its pending fetches, and the app store with the
\* XR session, driven by the buttons of the app.

\* openContent(fileEntry, position), up to its first await
OpenContent(id, hasProvider) ==
  /\ opens < MaxOpens
  /\ IF id \in DOMAIN contentObjects
     THEN UNCHANGED <<contentObjects, fetches, opens, openedBy>>
     ELSE IF ~hasProvider
     THEN /\ contentObjects' = openContentFailed(openContentAdd(contentObjects, id), id)
          /\ UNCHANGED <<fetches, opens, openedBy>>
     ELSE /\ contentObjects' = openContentAdd(contentObjects, id)
          /\ fetches' = fetches \cup {[id |-> id, n |-> opens + 1]}
          /\ opens' = opens + 1
          /\ openedBy' = [openedBy EXCEPT ![id] = opens + 1]
  /\ lastDone' = NoFetch
  /\ UNCHANGED <<mode, isARSessionActive, session, entering>>
  /\ UNCHANGED <<now, giVars, hookVars, boundaryVars, trackerVars, tapVars, orderVars>>

\* provider.getFileContent resolves: openContent continues after the await
FetchResolves(f) ==
  /\ f \in fetches
  /\ contentObjects' = openContentLoaded(contentObjects, f.id, [blob |-> f.n])
  /\ fetches' = fetches \ {f}
  /\ lastDone' = [id |-> f.id, n |-> f.n, ok |-> TRUE]
  /\ UNCHANGED <<opens, openedBy, mode, isARSessionActive, session, entering>>
  /\ UNCHANGED <<now, giVars, hookVars, boundaryVars, trackerVars, tapVars, orderVars>>

\* provider.getFileContent rejects: openContent continues in its catch block
FetchRejects(f) ==
  /\ f \in fetches
  /\ contentObjects' = openContentFailed(contentObjects, f.id)
  /\ fetches' = fetches \ {f}
  /\ lastDone' = [id |-> f.id, n |-> f.n, ok |-> FALSE]
  /\ UNCHANGED <<opens, openedBy, mode, isARSessionActive, session, entering>>
  /\ UNCHANGED <<now, giVars, hookVars, boundaryVars, trackerVars, tapVars, orderVars>>

CloseContent(id) ==
  /\ contentObjects' = closeContent(contentObjects, id)
  /\ lastDone' = NoFetch
  /\ UNCHANGED <<fetches, opens, openedBy, mode, isARSessionActive, session, entering>>
  /\ UNCHANGED <<now, giVars, hookVars, boundaryVars, trackerVars, tapVars, orderVars>>

\* ARModeButton: "Enter AR"
HandleEnterAR ==
  /\ mode # "ar"
  /\ mode' = "ar"
  /\ UNCHANGED <<isARSessionActive, session, entering>>
  /\ UNCHANGED <<contentObjects, fetches, opens, openedBy, lastDone>>
  /\ UNCHANGED <<now, giVars, hookVars, boundaryVars, trackerVars, tapVars, orderVars>>

\* StartARButton: "Start AR Session", up to the await of store.enterAR()
HandleStart ==
  /\ mode = "ar" /\ ~isARSessionActive /\ ~entering
  /\ entering' = TRUE
  /\ UNCHANGED <<mode, isARSessionActive, session>>
  /\ UNCHANGED <<contentObjects, fetches, opens, openedBy, lastDone>>
  /\ UNCHANGED <<now, giVars, hookVars, boundaryVars, trackerVars, tapVars, orderVars>>

\* store.enterAR() resolves: the XR store holds a session, ARMode's
\* subscriber runs, then handleStart continues with setARSessionActive(true)
EnterARResolves ==
  /\ entering
  /\ session' = "active"
  /\ isARSessionActive' = TRUE
  /\ mode' = SessionSubscriber("active")[2]
  /\ entering' = FALSE
  /\ UNCHANGED <<contentObjects, fetches, opens, openedBy, lastDone>>
  /\ UNCHANGED <<now, giVars, hookVars, boundaryVars, trackerVars, tapVars, orderVars>>

\* store.enterAR() rejects: handleStart shows the error
EnterARRejects ==
  /\ entering
  /\ entering' = FALSE
  /\ UNCHANGED <<mode, isARSessionActive, session>>
  /\ UNCHANGED <<contentObjects, fetches, opens, openedBy, lastDone>>
  /\ UNCHANGED <<now, giVars, hookVars, boundaryVars, trackerVars, tapVars, orderVars>>

\* StartARButton: "Cancel" / "Back to Simulated" (disabled while loading)
HandleCancel ==
  /\ mode = "ar" /\ ~isARSessionActive /\ ~entering
  /\ mode' = "simulated"
  /\ UNCHANGED <<isARSessionActive, session, entering>>
  /\ UNCHANGED <<contentObjects, fetches, opens, openedBy, lastDone>>
  /\ UNCHANGED <<now, giVars, hookVars, boundaryVars, trackerVars, tapVars, orderVars>>

\* ExitARButton: "Exit AR"
HandleExitAR ==
  /\ mode = "ar" /\ isARSessionActive
  /\ mode' = "simulated"
  /\ UNCHANGED <<isARSessionActive, session, entering>>
  /\ UNCHANGED <<contentObjects, fetches, opens, openedBy, lastDone>>
  /\ UNCHANGED <<now, giVars, hookVars, boundaryVars, trackerVars, tapVars, orderVars>>

\* the XR session ends (by the user, the system, or the XR library)
SessionEnds ==
  /\ session = "active"
  /\ session' = Null
  /\ isARSessionActive' = SessionSubscriber(Null)[1]
  /\ mode' = SessionSubscriber(Null)[2]
  /\ UNCHANGED entering
  /\ UNCHANGED <<contentObjects, fetches, opens, openedBy, lastDone>>
  /\ UNCHANGED <<now, giVars, hookVars, boundaryVars, trackerVars, tapVars, orderVars>>

\* any other change of the XR store reaches the subscriber of ARMode
XRStoreChanges ==
  /\ mode = "ar"
  /\ isARSessionActive' = SessionSubscriber(session)[1]
  /\ mode' = SessionSubscriber(session)[2]
  /\ UNCHANGED <<session, entering>>
  /\ UNCHANGED <<contentObjects, fetches, opens, openedBy, lastDone>>
  /\ UNCHANGED <<now, giVars, hookVars, boundaryVars, trackerVars, tapVars, orderVars>>

NextStores ==
  \/ \E id \in Entries, hasProvider \in BOOLEAN : OpenContent(id, hasProvider)
  \/ \E f \in fetches : FetchResolves(f)
  \/ \E f \in fetches : FetchRejects(f)
  \/ \E id \in Entries : CloseContent(id)
  \/ HandleEnterAR
  \/ HandleStart
  \/ EnterARResolves
  \/ EnterARRejects
  \/ HandleCancel
  \/ HandleExitAR
  \/ SessionEnds
  \/ XRStoreChanges

SpecStores == Init /\ [][NextStores]_vars

\* ------------------------------------------------- claims on SpecStores
\* C36  Close during load is final: when the fetch started by the latest
\* open of a file completes, by resolving or by rejecting, after the content
\* object was closed, the object is not put back into contentObjects.
C36_CloseDuringLoadIsFinal ==
  [][\A f \in fetches :
       ( /\ fetches' = fetches \ {f}
         /\ openedBy[f.id] = f.n
         /\ f.id \notin DOMAIN contentObjects )
       => f.id \notin DOMAIN contentObjects']_vars

\* the fetch of the latest open of a file has just resolved, and the file
\* has no content object: it was closed while the fetch was pending
C36_Witness ==
  /\ lastDone.ok
  /\ lastDone.n = openedBy[lastDone.id]
  /\ lastDone.id \notin DOMAIN contentObjects

\* C37  A stale load cannot affect a reopened preview: the completion of a
\* fetch that was not started by the latest open of its file, by success or
\* by failure, changes nothing in contentObjects (it neither removes the
\* reopened object nor sets its contentUrl or isLoading).
C37_StaleLoadIgnored ==
  [][\A f \in fetches :
       ( /\ fetches' = fetches \ {f}
         /\ openedBy[f.id] # f.n
         /\ f.id \in DOMAIN contentObjects )
       => contentObjects' = contentObjects]_vars

\* C38  AR session flag follows the mode: whenever the mode is simulated,
\* isARSessionActive is false.
C38_ARFlagFollowsMode ==
  mode = "simulated" => ~isARSessionActive
====
